---- MODULE Spec2Model ----
(***************************************************************************)
(* State-machine model of the Monopoly rules engine: the shared Firestore  *)
(* game document (src/src/gameLogic.tsx) and the per-client React state    *)
(* that drives it (src/src/App.tsx, second revision, lines 2363-4083).     *)
(*                                                                         *)
(* game  is the document games/<roomId>.  snap[c] is the gameState that    *)
(* client c has rendered (the last onSnapshot delivery, with c's own       *)
(* updateDoc writes applied locally).  A handler reads snap[c] wherever    *)
(* the code reads the gameState prop, and reads game wherever the code     *)
(* calls getDoc or transaction.get.  Every await between a getDoc and the  *)
(* updateDoc that uses it is a separate step, so other clients interleave. *)
(* A control is available to a client exactly when the JSX renders it for  *)
(* snap[c]; a modal drawn over the page does not remove the controls under *)
(* it.                                                                     *)
(***************************************************************************)
EXTENDS Integers, Sequences, FiniteSets, TLC

VARIABLES
    game,          \* the shared document
    snap,          \* snap[c]: the gameState client c has rendered
    hasRolled,     \* hasRolled[c]: GameRoom's useState flag
    landq,         \* landq[c]: rolls written whose landing effect has not yet run
    endq,          \* endq[c]: handleEndTurn calls of failed jail rolls not yet run
    pend,          \* pend[c]: what an async handler of c has read and not yet written
    ops,           \* user operations still allowed in this run
    ev             \* the last operation applied (history variable)

vars == <<game, snap, hasRolled, landq, endq, pend, ops, ev>>

\* ---------------------------------------------------------------- identities

PlayerIds == {"a", "b", "c"}
TradeIds == {"t1", "t2"}
Null == "null"
\* auction.propertyId when no auction was ever started
NoSquare == -1

\* Money is a JavaScript number.  It is kept in twentieths of a dollar so that
\* cost / 2 and (cost / 2) * 1.1 are exact.
Unit == 20
D(x) == x * Unit

\* The number NaN (the value of -undefined, and of any sum with NaN): an amount
\* no sum of money reaches.  NaN < x and NaN > x are false for every x, so every
\* test of the form "money < price" lets NaN pass as a large amount does.
NaN == 1000000000

\* x + d and -x on JavaScript numbers.
Plus(x, d) == IF x = NaN \/ d = NaN THEN NaN ELSE x + d
Neg(x) == IF x = NaN THEN NaN ELSE -x

\* Math.floor(x * 0.1) for an amount x in twentieths, again in twentieths.
FloorTenth(x) == IF x = NaN THEN NaN ELSE (x \div (10 * Unit)) * Unit

\* ---------------------------------------------------------------- static board

City(country, cost, rent) ==
    [type |-> "city", country |-> country, cost |-> cost, rent |-> rent, amount |-> 0]
Utility(type, cost, rent) ==
    [type |-> type, country |-> "", cost |-> cost, rent |-> rent, amount |-> 0]
Plain(type) ==
    [type |-> type, country |-> "", cost |-> 0, rent |-> <<>>, amount |-> 0]
Tax(amount) ==
    [type |-> "tax", country |-> "", cost |-> 0, rent |-> <<>>, amount |-> amount]

\* Entry p + 1 is square p.  The 10% income tax (amount 0.10) is kept as amount 0
\* and computed by TaxAmount.
BoardSquares == <<
    Plain("go"),
    City("Brazil", 60, <<4, 20, 60, 180, 320, 450>>),
    Plain("treasure"),
    City("Brazil", 60, <<4, 20, 60, 180, 320, 450>>),
    Tax(0),
    Utility("airport", 200, <<25, 50, 100, 200>>),
    City("Brazil", 80, <<6, 30, 90, 270, 400, 550>>),
    Plain("surprise"),
    City("China", 100, <<6, 30, 90, 270, 400, 550>>),
    City("China", 100, <<6, 30, 90, 270, 400, 550>>),
    Utility("harbour", 150, <<50, 100, 150, 200>>),
    City("China", 120, <<8, 40, 100, 300, 450, 600>>),
    Utility("company", 150, <<4, 10>>),
    City("Canada", 140, <<10, 50, 150, 450, 625, 750>>),
    Plain("jail"),
    City("Canada", 160, <<12, 60, 180, 500, 700, 900>>),
    Utility("airport", 200, <<25, 50, 100, 200>>),
    City("France", 180, <<14, 70, 200, 550, 750, 950>>),
    City("France", 180, <<14, 70, 200, 550, 750, 950>>),
    Plain("treasure"),
    City("France", 200, <<16, 80, 220, 600, 800, 1000>>),
    Utility("harbour", 150, <<50, 100, 150, 200>>),
    City("France", 220, <<18, 90, 250, 700, 875, 1050>>),
    Plain("surprise"),
    City("Germany", 220, <<18, 90, 250, 700, 875, 1050>>),
    City("Germany", 240, <<20, 100, 300, 750, 925, 1100>>),
    Utility("company", 150, <<4, 10>>),
    City("Germany", 260, <<22, 110, 330, 800, 975, 1150>>),
    Plain("vacation"),
    City("Russia", 260, <<22, 110, 330, 800, 975, 1150>>),
    City("Russia", 280, <<24, 120, 360, 850, 1025, 1200>>),
    Utility("airport", 200, <<25, 50, 100, 200>>),
    City("Russia", 300, <<26, 130, 390, 900, 1100, 1275>>),
    City("Japan", 300, <<26, 130, 390, 900, 1100, 1275>>),
    Plain("treasure"),
    City("Japan", 320, <<28, 150, 450, 1000, 1200, 1400>>),
    Utility("harbour", 150, <<50, 100, 150, 200>>),
    City("India", 350, <<35, 175, 500, 1100, 1300, 1500>>),
    Plain("surprise"),
    City("India", 400, <<50, 200, 600, 1400, 1700, 2000>>),
    Tax(100),
    City("India", 350, <<35, 175, 500, 1100, 1300, 1500>>),
    Plain("go-to-jail-square"),
    City("UK", 350, <<35, 175, 500, 1100, 1300, 1500>>),
    City("UK", 400, <<50, 200, 600, 1400, 1700, 2000>>),
    Utility("airport", 200, <<25, 50, 100, 200>>),
    City("UK", 425, <<55, 225, 650, 1500, 1800, 2100>>),
    Plain("treasure"),
    City("UK", 425, <<55, 225, 650, 1500, 1800, 2100>>),
    City("Australia", 450, <<60, 250, 700, 1600, 1900, 2200>>),
    Utility("harbour", 150, <<50, 100, 150, 200>>),
    City("Australia", 475, <<65, 275, 750, 2000, 2400>>),
    City("Australia", 500, <<70, 300, 800, 1800, 2100, 2500>>),
    City("USA", 550, <<75, 325, 850, 1900, 2200, 2600>>),
    City("USA", 550, <<75, 325, 850, 1900, 2200, 2600>>),
    City("USA", 600, <<80, 350, 900, 2000, 2400, 2800>>) >>

BoardSize == 56
Squares == 0 .. (BoardSize - 1)
initialBoardState == [p \in Squares |-> BoardSquares[p + 1]]

PricedTypes == {"city", "airport", "harbour", "company"}
Priced == {p \in Squares : initialBoardState[p].type \in PricedTypes}

countryData == [
    Brazil |-> [cities |-> {1, 3, 6}, houseCost |-> 50],
    China |-> [cities |-> {8, 9, 11}, houseCost |-> 50],
    Japan |-> [cities |-> {33, 35}, houseCost |-> 100],
    Germany |-> [cities |-> {24, 25, 27}, houseCost |-> 100],
    Russia |-> [cities |-> {29, 30, 32}, houseCost |-> 150],
    France |-> [cities |-> {17, 18, 20, 22}, houseCost |-> 150],
    UK |-> [cities |-> {43, 44, 46, 48}, houseCost |-> 200],
    Canada |-> [cities |-> {13, 15}, houseCost |-> 200],
    India |-> [cities |-> {37, 39, 41}, houseCost |-> 220],
    Australia |-> [cities |-> {49, 51, 52}, houseCost |-> 220],
    USA |-> [cities |-> {53, 54, 55}, houseCost |-> 250] ]

\* propertyTypeMap: the holdings array a square type is kept in.
propertyTypeMap(type) ==
    CASE type = "city" -> "cities"
      [] type = "airport" -> "airports"
      [] type = "harbour" -> "harbours"
      [] type = "company" -> "companies"

ownershipArray(pos) == propertyTypeMap(initialBoardState[pos].type)

Categories == {"cities", "airports", "harbours", "companies"}

\* ---------------------------------------------------------------- sequences

Includes(s, x) == \E i \in 1 .. Len(s) : s[i] = x
Filter(s, x) == SelectSeq(s, LAMBDA y : y # x)
Elems(s) == {s[i] : i \in 1 .. Len(s)}

\* ---------------------------------------------------------------- the document

\* A player id with no entry in the players map.
NoPlayer == [
    rec |-> "none", money |-> 0, position |-> 0,
    cities |-> <<>>, airports |-> <<>>, harbours |-> <<>>, companies |-> <<>>,
    inJail |-> FALSE, jailTurns |-> 0, doublesCount |-> 0, onVacation |-> FALSE,
    getOutOfJailFreeCards |-> 0, houses |-> 0, hotels |-> 0 ]

NewPlayer(initialMoney) == [NoPlayer EXCEPT !.rec = "full", !.money = initialMoney]

NoProperty == [owner |-> Null, houses |-> 0, hotels |-> 0, mortgaged |-> FALSE]

getInitialDynamicBoardState == [p \in Priced |-> NoProperty]

\* settled is not a field of the document: it counts the settlements with a
\* winner that were applied to this auction object (history).
NoAuction == [
    active |-> FALSE, propertyId |-> NoSquare, currentBid |-> 0, highestBidder |-> Null,
    sellerId |-> Null, bids |-> [p \in PlayerIds |-> 0], settled |-> 0 ]

\* trades.<id> is absent from the map unless its status is "pending".  An id that
\* was never used has status "none"; deleteField() leaves the outcome as the
\* status, which no handler can tell from "none".
NoTrade == [status |-> "none"]
Removed(outcome) == [status |-> outcome]

DefaultSettings == [
    initialMoney |-> D(1500), allowAuctions |-> TRUE, allowOwnedPropertyAuctions |-> TRUE,
    allowMortgage |-> TRUE, rentInJail |-> FALSE, taxInVacationPot |-> TRUE,
    doubleRentOnMonopoly |-> TRUE, increasingJailFine |-> FALSE ]

\* The document when the host has started the game (handleStartGame).
\* movedThisTurn is not a field of the document: movedThisTurn[p] records that p
\* has made a move by a roll that was not doubles since the turn last passed
\* (history).
StartedGame(settings, order) == [
    status |-> "in-progress", hostId |-> "a", settings |-> settings,
    players |-> [p \in PlayerIds |-> NewPlayer(settings.initialMoney)],
    board |-> getInitialDynamicBoardState,
    turnOrder |-> order, currentPlayerTurn |-> order[1],
    vacationPot |-> 0, auction |-> NoAuction,
    trades |-> [t \in TradeIds |-> NoTrade],
    winner |-> Null, jailCount |-> [p \in PlayerIds |-> 0],
    movedThisTurn |-> [p \in PlayerIds |-> FALSE] ]

\* Object.keys(gameState.players)
PlayerKeys(g) == {p \in PlayerIds : g.players[p].rec # "none"}

\* A write to players.<p>.<field> of a player that has no entry creates one
\* that holds only the written fields.
Touch(r) == IF r.rec = "none" THEN [r EXCEPT !.rec = "partial"] ELSE r

PSet(g, p, f, v) == [g EXCEPT !.players[p] = [Touch(@) EXCEPT ![f] = v]]
PInc(g, p, f, d) == [g EXCEPT !.players[p] = [Touch(@) EXCEPT ![f] = Plus(@, d)]]
PUnion(g, p, f, x) ==
    [g EXCEPT !.players[p] =
        [Touch(@) EXCEPT ![f] = IF Includes(@, x) THEN @ ELSE Append(@, x)]]
PDelete(g, p) == [g EXCEPT !.players[p] = NoPlayer]

BSet(g, pos, f, v) == [g EXCEPT !.board[pos] = [@ EXCEPT ![f] = v]]
BInc(g, pos, f, d) == [g EXCEPT !.board[pos] = [@ EXCEPT ![f] = @ + d]]

\* All of a player's holdings, of every category.
Holdings(g, p) ==
    Elems(g.players[p].cities) \cup Elems(g.players[p].airports)
        \cup Elems(g.players[p].harbours) \cup Elems(g.players[p].companies)

\* ---------------------------------------------------------------- client plumbing

NoPend == [kind |-> "none"]

\* What the last step did: the operation, the acting player p, the other party
\* q, the square, the amount, and for some operations the trade id, the dice and
\* whether the step belongs to a roll that was a third double.
\* No card: the square landed on is not a card square.
NoCard == "none"

Event(op, p, q, pos, amt) ==
    [op |-> op, p |-> p, q |-> q, pos |-> pos, amt |-> amt,
     t |-> Null, d1 |-> 0, d2 |-> 0, third |-> FALSE, card |-> NoCard]
TradeEvent(op, p, q, t) == [Event(op, p, q, 0, 0) EXCEPT !.t = t]
RollEvent(op, p, d1, d2, credit) ==
    [Event(op, p, Null, 0, credit) EXCEPT !.d1 = d1, !.d2 = d2]
NoEvent == Event("init", Null, Null, 0, 0)

\* A client whose own record is gone renders the "eliminated" page, and a client of
\* a finished game the "Game Over" page: neither shows any control.
InGame(c) ==
    /\ snap[c].status = "in-progress"
    /\ snap[c].players[c].rec = "full"

\* updateDoc(gameRef, updates) by client c: the write reaches the document, and
\* c's own listener shows it at once (latency compensation).
UpdateDoc(c, newDoc, newLocal) ==
    /\ game' = newDoc
    /\ snap' = [snap EXCEPT ![c] = newLocal]

\* onSnapshot delivers the current document to client c.
\* The effect on gameState.currentPlayerTurn: hasRolled is reset whenever the
\* turn shown to client c changes.
TurnShown(c, turn) ==
    IF turn # snap[c].currentPlayerTurn THEN [hasRolled EXCEPT ![c] = FALSE] ELSE hasRolled

Sync(c) ==
    /\ snap[c] # game
    /\ snap' = [snap EXCEPT ![c] = game]
    /\ hasRolled' = TurnShown(c, game.currentPlayerTurn)
    /\ ev' = Event("sync", c, Null, 0, 0)
    /\ UNCHANGED <<game, landq, endq, pend, ops>>

Spend == ops > 0 /\ ops' = ops - 1

\* ---------------------------------------------------------------- buy and sell

buyPropertyUpdates(g, playerId, pos) ==
    BSet(PUnion(PInc(g, playerId, "money", -D(initialBoardState[pos].cost)),
                playerId, ownershipArray(pos), pos),
         pos, "owner", playerId)

\* GameRoom's Buy button and buyProperty.
buyProperty(c) ==
    LET gs == snap[c]
        me == gs.players[c]
        pos == me.position
    IN  /\ InGame(c)
        /\ gs.currentPlayerTurn = c
        /\ hasRolled[c] /\ ~me.onVacation /\ ~me.inJail
        /\ pos \in Priced /\ gs.board[pos].owner = Null          \* canBuy
        /\ me.money >= D(initialBoardState[pos].cost)
        /\ Spend
        /\ UpdateDoc(c,
               buyPropertyUpdates(game, c, pos),
               buyPropertyUpdates(snap[c], c, pos))
        /\ ev' = Event("buy", c, Null, pos, D(initialBoardState[pos].cost))
        /\ UNCHANGED <<hasRolled, landq, endq, pend>>

sellPropertyUpdates(g, gs, playerId, pos) ==
    LET arr == ownershipArray(pos)
        g1 == BSet(PInc(g, playerId, "money", D(initialBoardState[pos].cost) \div 2),
                   pos, "owner", Null)
    IN  IF Includes(gs.players[playerId][arr], pos)
        THEN PSet(g1, playerId, arr, Filter(gs.players[playerId][arr], pos))
        ELSE g1

\* Board's Sell Property button and sellProperty.
sellProperty(c, pos) ==
    LET gs == snap[c]
    IN  /\ InGame(c)
        /\ gs.board[pos].owner = c                               \* isMyProperty
        /\ ~gs.board[pos].mortgaged
        /\ gs.board[pos].houses = 0 /\ gs.board[pos].hotels = 0
        /\ Spend
        /\ UpdateDoc(c,
               sellPropertyUpdates(game, gs, c, pos),
               sellPropertyUpdates(snap[c], gs, c, pos))
        /\ ev' = Event("sell", c, Null, pos, D(initialBoardState[pos].cost) \div 2)
        /\ UNCHANGED <<hasRolled, landq, endq, pend>>

\* ---------------------------------------------------------------- auction

\* startAuction: the auction object is replaced as a whole.
startAuctionUpdates(g, propertyId, startingBid, sellerId) ==
    [g EXCEPT !.auction = [
        active |-> TRUE, propertyId |-> propertyId, currentBid |-> startingBid,
        highestBidder |-> Null, sellerId |-> sellerId,
        bids |-> [p \in PlayerIds |-> 0], settled |-> 0 ]]

\* GameRoom's Auction button (an unowned square the player stands on).
startBankAuction(c) ==
    LET gs == snap[c]
        me == gs.players[c]
        pos == me.position
    IN  /\ InGame(c)
        /\ gs.currentPlayerTurn = c
        /\ hasRolled[c] /\ ~me.onVacation /\ ~me.inJail
        /\ pos \in Priced /\ gs.board[pos].owner = Null          \* canBuy
        /\ game.settings.allowAuctions                            \* read by getDoc
        /\ Spend
        /\ UpdateDoc(c,
               startAuctionUpdates(game, pos, D(initialBoardState[pos].cost \div 2), Null),
               startAuctionUpdates(snap[c], pos, D(initialBoardState[pos].cost \div 2), Null))
        /\ ev' = Event("startAuction", c, Null, pos, 0)
        /\ UNCHANGED <<hasRolled, landq, endq, pend>>

\* Board's Auction button and confirmStartAuction (a square the player owns).
startOwnedAuction(c, pos, startingBid) ==
    LET gs == snap[c]
    IN  /\ InGame(c)
        /\ gs.board[pos].owner = c                               \* isMyProperty
        /\ gs.settings.allowOwnedPropertyAuctions                \* button enabled
        /\ game.settings.allowOwnedPropertyAuctions              \* read by getDoc
        /\ game.currentPlayerTurn = c
        /\ Spend
        /\ UpdateDoc(c,
               startAuctionUpdates(game, pos, startingBid, c),
               startAuctionUpdates(snap[c], pos, startingBid, c))
        /\ ev' = Event("startAuction", c, c, pos, startingBid)
        /\ UNCHANGED <<hasRolled, landq, endq, pend>>

placeBidUpdates(g, c, bidAmount) ==
    [g EXCEPT !.auction.bids[c] = bidAmount,
              !.auction.currentBid = bidAmount,
              !.auction.highestBidder = c]

\* AuctionModal.placeBid
placeBid(c, bidAmount) ==
    LET auction == snap[c].auction
        me == snap[c].players[c]
    IN  /\ InGame(c)
        /\ auction.active                                         \* the modal is shown
        /\ auction.sellerId # c                                   \* isSeller
        /\ auction.bids[c] = 0                                    \* hasBid
        /\ bidAmount > auction.currentBid
        /\ bidAmount <= me.money
        /\ Spend
        /\ UpdateDoc(c,
               placeBidUpdates(game, c, bidAmount),
               placeBidUpdates(snap[c], c, bidAmount))
        /\ ev' = Event("bid", c, Null, auction.propertyId, bidAmount)
        /\ UNCHANGED <<hasRolled, landq, endq, pend>>

\* AuctionModal.handleCloseAuction
handleCloseAuction(c) ==
    LET gs == snap[c]
    IN  /\ InGame(c)
        /\ gs.auction.active
        /\ c = gs.hostId
        /\ \A p \in PlayerIds : gs.auction.bids[p] = 0
        /\ UpdateDoc(c,
               [game EXCEPT !.auction.active = FALSE],
               [snap[c] EXCEPT !.auction.active = FALSE])
        /\ ev' = Event("closeAuction", c, Null, gs.auction.propertyId, 0)
        /\ UNCHANGED <<hasRolled, landq, endq, pend, ops>>

\* Object.entries(latestAuction.bids)
Bidders(auction) == {p \in PlayerIds : auction.bids[p] > 0}

\* finalBids[0] after sorting by amount, descending: a bidder no other bidder
\* outbids.  Equal bids keep the order of the map's keys, which the code does
\* not control, so any of them may come first.
HighestBidders(auction) ==
    {p \in Bidders(auction) : \A q \in Bidders(auction) : auction.bids[q] <= auction.bids[p]}

\* endAuction with the tenth taken exactly instead of by Math.floor.
endAuctionUpdatesExactTenth(g, latest, propertyId, w) ==
    LET bid == latest.auction.bids[w]
        tax == bid \div 10
        seller == latest.auction.sellerId
        g1 == [g EXCEPT !.auction.active = FALSE, !.auction.settled = @ + 1]
        g2 == BSet(g1, propertyId, "owner", w)
        g3 == PUnion(g2, w, ownershipArray(propertyId), propertyId)
        g4 == PSet(g3, w, "money", latest.players[w].money - bid)
        g5 == IF seller # Null THEN PInc(g4, seller, "money", bid - tax) ELSE g4
    IN  IF seller # Null /\ latest.settings.taxInVacationPot
        THEN [g5 EXCEPT !.vacationPot = @ + tax]
        ELSE g5

\* The updates endAuction builds from the document it read (latest) and from the
\* propertyId of the auction its modal shows, for the winner w.
endAuctionUpdates(g, latest, propertyId, w) ==
    LET bid == latest.auction.bids[w]
        tax == FloorTenth(bid)
        seller == latest.auction.sellerId
        g1 == [g EXCEPT !.auction.active = FALSE, !.auction.settled = @ + 1]
        g2 == BSet(g1, propertyId, "owner", w)
        g3 == PUnion(g2, w, ownershipArray(propertyId), propertyId)
        g4 == PSet(g3, w, "money", latest.players[w].money - bid)
        g5 == IF seller # Null THEN PInc(g4, seller, "money", bid - tax) ELSE g4
    IN  IF seller # Null /\ latest.settings.taxInVacationPot
        THEN [g5 EXCEPT !.vacationPot = @ + tax]
        ELSE g5

\* The host's countdown reaches 0 and endAuction reads the document (getDoc).
\* shownBid is auction.currentBid of the render in which the interval ran;
\* queued holds the reads of further endAuction calls of this modal.
EndAuctionRead(c) ==
    LET gs == snap[c]
    IN  /\ InGame(c)
        /\ gs.auction.active                                      \* the modal is shown
        /\ gs.hostId = c
        /\ pend[c].kind = "none"
        /\ pend' = [pend EXCEPT ![c] =
               [kind |-> "endAuction", latest |-> game, propertyId |-> gs.auction.propertyId,
                shownBid |-> gs.auction.currentBid, queued |-> <<>>]]
        /\ ev' = Event("endAuctionRead", c, Null, gs.auction.propertyId, 0)
        /\ UNCHANGED <<game, snap, hasRolled, landq, endq, ops>>

\* endAuction calls of one modal that may wait for their updateDoc behind the first.
MaxQueuedSettlements == 1

\* The countdown effect depends on auction.currentBid and the timer is never
\* set back: when a bid reaches the host's page after the timer has hit 0 and
\* the modal is still shown, the effect starts a new interval, whose first tick
\* finds the timer at 0 and calls endAuction again.
EndAuctionReadAgain(c) ==
    LET gs == snap[c]
    IN  /\ InGame(c)
        /\ gs.auction.active
        /\ gs.hostId = c
        /\ pend[c].kind = "endAuction"
        /\ gs.auction.currentBid # pend[c].shownBid
        /\ Len(pend[c].queued) < MaxQueuedSettlements
        /\ pend' = [pend EXCEPT ![c] =
               [pend[c] EXCEPT !.shownBid = gs.auction.currentBid,
                                !.queued = Append(pend[c].queued, game)]]
        /\ ev' = Event("endAuctionRead", c, Null, gs.auction.propertyId, 0)
        /\ UNCHANGED <<game, snap, hasRolled, landq, endq, ops>>

\* endAuction writes what it computed from that read (updateDoc).
EndAuctionWrite(c) ==
    LET latest == pend[c].latest
        propertyId == pend[c].propertyId
    IN  /\ pend[c].kind = "endAuction"
        /\ pend' = [pend EXCEPT ![c] =
               IF pend[c].queued = <<>> THEN NoPend
               ELSE [pend[c] EXCEPT !.latest = Head(pend[c].queued),
                                    !.queued = Tail(pend[c].queued)]]
        /\ IF Bidders(latest.auction) = {}
           THEN /\ UpdateDoc(c,
                       [game EXCEPT !.auction.active = FALSE],
                       [snap[c] EXCEPT !.auction.active = FALSE])
                /\ ev' = Event("settle", Null, latest.auction.sellerId, propertyId, 0)
           ELSE \E w \in HighestBidders(latest.auction) :
                IF latest.players[w].rec = "none"
                THEN \* winner.money of a missing record throws: nothing is written
                     /\ UNCHANGED <<game, snap>>
                     /\ ev' = Event("settleThrows", w, Null, propertyId, 0)
                ELSE /\ UpdateDoc(c,
                            endAuctionUpdates(game, latest, propertyId, w),
                            endAuctionUpdates(snap[c], latest, propertyId, w))
                     /\ ev' = Event("settle", w, latest.auction.sellerId, propertyId,
                                    latest.auction.bids[w])
        /\ UNCHANGED <<hasRolled, landq, endq, ops>>

\* ---------------------------------------------------------------- trades

sendOfferUpdates(g, t, from, to, offer, request) ==
    [g EXCEPT !.trades[t] =
        [status |-> "pending", fromPlayer |-> from, toPlayer |-> to,
         offer |-> offer, request |-> request]]

\* TradeModal.handleSendOffer
handleSendOffer(c, t, partner, offer, request) ==
    LET gs == snap[c]
    IN  /\ InGame(c)
        /\ partner # c /\ partner \in PlayerKeys(gs)
        /\ game.trades[t].status = "none"                         \* generateId: a fresh id
        /\ gs.trades[t].status = "none"
        /\ offer.money <= gs.players[c].money
        /\ offer.properties \subseteq Holdings(gs, c)
        /\ request.money <= gs.players[partner].money
        /\ request.properties \subseteq Holdings(gs, partner)
        /\ Spend
        /\ UpdateDoc(c,
               sendOfferUpdates(game, t, c, partner, offer, request),
               sendOfferUpdates(snap[c], t, c, partner, offer, request))
        /\ ev' = TradeEvent("sendOffer", c, partner, t)
        /\ UNCHANGED <<hasRolled, landq, endq, pend>>

\* One pass of trade.<side>.properties.forEach: every listed property leaves
\* giver's array (filter), is pushed onto taker's array and gets taker as owner.
RECURSIVE MoveProperties(_, _, _, _)
MoveProperties(g, props, giver, taker) ==
    IF props = {} THEN g
    ELSE LET pos == CHOOSE x \in props : \A y \in props : x <= y
             arr == ownershipArray(pos)
             g1 == [g EXCEPT !.players[giver][arr] = Filter(@, pos)]
             g2 == [g1 EXCEPT !.players[taker][arr] = Append(@, pos)]
             g3 == BSet(g2, pos, "owner", taker)
         IN  MoveProperties(g3, props \ {pos}, giver, taker)

\* The body of the transaction of handleAcceptTrade, on the document it read.
acceptTradeUpdates(g, trade, t) ==
    LET from == trade.fromPlayer
        to == trade.toPlayer
        g1 == [g EXCEPT
                 !.players[from].money = @ - trade.offer.money + trade.request.money,
                 !.players[to].money = @ + trade.offer.money - trade.request.money]
        g2 == MoveProperties(g1, trade.offer.properties, from, to)
        g3 == MoveProperties(g2, trade.request.properties, to, from)
    IN  [g3 EXCEPT !.trades[t] = Removed("accepted")]

\* The throws of the transaction without its test of the two parties' money.
acceptTradeThrowsUnfunded(g, trade) ==
    \/ g.players[trade.fromPlayer].rec = "none"
    \/ g.players[trade.toPlayer].rec = "none"

\* Whether the transaction throws: a party's record is missing (fromPlayer.money
\* of undefined), or a party cannot pay.
acceptTradeThrows(g, trade) ==
    \/ g.players[trade.fromPlayer].rec = "none"
    \/ g.players[trade.toPlayer].rec = "none"
    \/ g.players[trade.fromPlayer].money < trade.offer.money
    \/ g.players[trade.toPlayer].money < trade.request.money

\* TradeModal.handleAcceptTrade: the trade is the one the client's modal shows;
\* players and board are read and written inside one transaction.  A transaction
\* is not applied to the local cache: the client sees it at the next snapshot.
handleAcceptTrade(c, t) ==
    LET trade == snap[c].trades[t]
    IN  /\ InGame(c)
        /\ trade.status = "pending"
        /\ trade.toPlayer = c                                     \* View Offer
        /\ Spend
        /\ IF acceptTradeThrows(game, trade)
           THEN /\ UNCHANGED game
                /\ ev' = TradeEvent("acceptThrows", c, trade.fromPlayer, t)
           ELSE /\ game' = acceptTradeUpdates(game, trade, t)
                /\ ev' = TradeEvent("accept", c, trade.fromPlayer, t)
        /\ UNCHANGED <<snap, hasRolled, landq, endq, pend>>

\* updateDoc of trades.<id>: deleteField().  Deleting a key the map does not
\* hold leaves the map as it is.
deleteTrade(g, t, outcome) ==
    [g EXCEPT !.trades[t] = IF @.status = "pending" THEN Removed(outcome) ELSE @]

\* TradeModal.handleRejectTrade
handleRejectTrade(c, t) ==
    LET trade == snap[c].trades[t]
    IN  /\ InGame(c)
        /\ trade.status = "pending"
        /\ trade.toPlayer = c
        /\ Spend
        /\ UpdateDoc(c, deleteTrade(game, t, "rejected"), deleteTrade(snap[c], t, "rejected"))
        /\ ev' = TradeEvent("reject", c, trade.fromPlayer, t)
        /\ UNCHANGED <<hasRolled, landq, endq, pend>>

\* handleCancelTrade with the Cancel Offer button shown for every open trade.
handleCancelTradeByAnyone(c, t) ==
    LET trade == snap[c].trades[t]
    IN  /\ InGame(c)
        /\ trade.status = "pending"
        /\ Spend
        /\ UpdateDoc(c, deleteTrade(game, t, "cancelled"), deleteTrade(snap[c], t, "cancelled"))
        /\ ev' = TradeEvent("cancel", c, trade.toPlayer, t)
        /\ UNCHANGED <<hasRolled, landq, endq, pend>>

\* TradesWidget.handleCancelTrade
handleCancelTrade(c, t) ==
    LET trade == snap[c].trades[t]
    IN  /\ InGame(c)
        /\ trade.status = "pending"
        /\ trade.fromPlayer = c                                   \* Cancel Offer
        /\ Spend
        /\ UpdateDoc(c, deleteTrade(game, t, "cancelled"), deleteTrade(snap[c], t, "cancelled"))
        /\ ev' = TradeEvent("cancel", c, trade.toPlayer, t)
        /\ UNCHANGED <<hasRolled, landq, endq, pend>>

\* ---------------------------------------------------------------- bankruptcy

RECURSIVE ReturnToBank(_, _)
ReturnToBank(g, props) ==
    IF props = {} THEN g
    ELSE LET pos == CHOOSE x \in props : TRUE
         IN  ReturnToBank([g EXCEPT !.board[pos] = NoProperty], props \ {pos})

\* handleBankruptcy, for the snapshot gs the declaring client holds.
handleBankruptcyUpdates(g, gs, playerId) ==
    LET playerIds == PlayerKeys(gs)
        remaining == playerIds \ {playerId}
        owned == {pos \in Priced : gs.board[pos].owner = playerId}
        g1 == ReturnToBank(PDelete(g, playerId), owned)
    IN  IF playerIds = {playerId}
        THEN [g EXCEPT !.status = "finished", !.winner = playerId]
        ELSE IF Cardinality(remaining) = 1
             THEN [g1 EXCEPT !.status = "finished",
                             !.winner = CHOOSE w \in remaining : TRUE]
             ELSE g1

\* GameRoom's Bankruptcy button.
handleBankruptcy(c) ==
    /\ InGame(c)
    /\ Spend
    /\ UpdateDoc(c,
           handleBankruptcyUpdates(game, snap[c], c),
           handleBankruptcyUpdates(snap[c], snap[c], c))
    /\ ev' = Event("bankruptcy", c, Null, 0, 0)
    /\ UNCHANGED <<hasRolled, landq, endq, pend>>


\* ---------------------------------------------------------------- houses and mortgages

\* countryInfo.cities.every(cId => player.cities.includes(String(cId)))
hasMonopoly(player, country) ==
    \A cityId \in countryData[country].cities : Includes(player.cities, cityId)

houseCost(cityId) == D(countryData[initialBoardState[cityId].country].houseCost)

\* The updateDoc of buildHouse, chosen by the city state of the caller's snapshot.
buildHouseUpdates(g, gs, playerId, cityId) ==
    LET g1 == PInc(g, playerId, "money", -houseCost(cityId))
    IN  IF gs.board[cityId].houses >= 4 /\ gs.board[cityId].hotels = 0
        THEN BSet(BSet(PInc(PInc(g1, playerId, "houses", -4), playerId, "hotels", 1),
                       cityId, "houses", 0),
                  cityId, "hotels", 1)
        ELSE BInc(PInc(g1, playerId, "houses", 1), cityId, "houses", 1)

\* Board's Build button and buildHouse.
buildHouse(c, cityId) ==
    LET gs == snap[c]
        cityState == gs.board[cityId]
    IN  /\ InGame(c)
        /\ initialBoardState[cityId].type = "city"
        /\ cityState.owner = c /\ ~cityState.mortgaged           \* the button is shown
        /\ hasMonopoly(gs.players[c], initialBoardState[cityId].country)
        /\ gs.players[c].money >= houseCost(cityId)
        /\ (cityState.houses >= 4 /\ cityState.hotels = 0) \/ cityState.houses < 4
        /\ Spend
        /\ UpdateDoc(c,
               buildHouseUpdates(game, gs, c, cityId),
               buildHouseUpdates(snap[c], gs, c, cityId))
        /\ ev' = Event("build", c, Null, cityId, houseCost(cityId))
        /\ UNCHANGED <<hasRolled, landq, endq, pend>>

sellHouseUpdates(g, gs, playerId, cityId) ==
    LET g1 == PInc(g, playerId, "money", houseCost(cityId) \div 2)
    IN  IF gs.board[cityId].hotels > 0
        THEN BSet(BSet(PInc(PInc(g1, playerId, "hotels", -1), playerId, "houses", 4),
                       cityId, "hotels", 0),
                  cityId, "houses", 4)
        ELSE BInc(PInc(g1, playerId, "houses", -1), cityId, "houses", -1)

\* Board's Sell button and sellHouse.
sellHouse(c, cityId) ==
    LET gs == snap[c]
        cityState == gs.board[cityId]
    IN  /\ InGame(c)
        /\ initialBoardState[cityId].type = "city"
        /\ cityState.owner = c /\ ~cityState.mortgaged           \* the button is shown
        /\ cityState.hotels > 0 \/ cityState.houses > 0
        /\ Spend
        /\ UpdateDoc(c,
               sellHouseUpdates(game, gs, c, cityId),
               sellHouseUpdates(snap[c], gs, c, cityId))
        /\ ev' = Event("sellHouse", c, Null, cityId, houseCost(cityId) \div 2)
        /\ UNCHANGED <<hasRolled, landq, endq, pend>>

mortgageValue(pos) == D(initialBoardState[pos].cost) \div 2
\* (cost / 2) * 1.1
unmortgageCost(pos) == (mortgageValue(pos) * 11) \div 10

\* Board's Mortgage button and mortgageProperty.
mortgageProperty(c, pos) ==
    LET gs == snap[c]
        propertyState == gs.board[pos]
    IN  /\ InGame(c)
        /\ propertyState.owner = c /\ ~propertyState.mortgaged
        /\ gs.settings.allowMortgage
        /\ propertyState.houses = 0 /\ propertyState.hotels = 0
        /\ Spend
        /\ UpdateDoc(c,
               BSet(PInc(game, c, "money", mortgageValue(pos)), pos, "mortgaged", TRUE),
               BSet(PInc(snap[c], c, "money", mortgageValue(pos)), pos, "mortgaged", TRUE))
        /\ ev' = Event("mortgage", c, Null, pos, mortgageValue(pos))
        /\ UNCHANGED <<hasRolled, landq, endq, pend>>

\* Board's Unmortgage button and unmortgageProperty.
unmortgageProperty(c, pos) ==
    LET gs == snap[c]
        propertyState == gs.board[pos]
    IN  /\ InGame(c)
        /\ propertyState.owner = c /\ propertyState.mortgaged
        /\ gs.settings.allowMortgage
        /\ gs.players[c].money >= unmortgageCost(pos)
        /\ Spend
        /\ UpdateDoc(c,
               BSet(PInc(game, c, "money", -unmortgageCost(pos)), pos, "mortgaged", FALSE),
               BSet(PInc(snap[c], c, "money", -unmortgageCost(pos)), pos, "mortgaged", FALSE))
        /\ ev' = Event("unmortgage", c, Null, pos, unmortgageCost(pos))
        /\ UNCHANGED <<hasRolled, landq, endq, pend>>

\* ---------------------------------------------------------------- rent

JailSquare == 14

\* squareInfo.rent[i] || 0
RentOrZero(pos, i) ==
    LET rent == initialBoardState[pos].rent
    IN  IF i >= 0 /\ i < Len(rent) THEN D(rent[i + 1]) ELSE 0

\* The early returns of handlePayment: whether it goes on to charge rent.  A
\* missing owner record makes owner.inJail throw, which charges nothing either.
PaymentDue(gs, renterId, pos) ==
    LET squareState == gs.board[pos]
    IN  /\ squareState.owner # Null
        /\ squareState.owner # renterId
        /\ ~squareState.mortgaged
        /\ gs.players[squareState.owner].rec = "full"
        /\ ~(gs.players[squareState.owner].inJail /\ ~gs.settings.rentInJail)

\* squareInfo.rent[5]: undefined when the city's rent table has five entries,
\* and then -rentAmount is NaN.
hotelRent(pos) ==
    LET rent == initialBoardState[pos].rent
    IN  IF Len(rent) >= 6 THEN D(rent[6]) ELSE NaN

\* rentAmount without the doubling for a monopoly with no houses.
rentAmountNotDoubled(gs, pos, diceRoll) ==
    LET squareInfo == initialBoardState[pos]
        squareState == gs.board[pos]
        owner == gs.players[squareState.owner]
    IN  CASE squareInfo.type = "city" ->
                 IF squareState.hotels > 0 THEN hotelRent(pos)
                 ELSE IF hasMonopoly(owner, squareInfo.country)
                      THEN RentOrZero(pos, squareState.houses)
                      ELSE RentOrZero(pos, 0)
          [] squareInfo.type = "airport" -> RentOrZero(pos, Len(owner.airports) - 1)
          [] squareInfo.type = "harbour" -> RentOrZero(pos, Len(owner.harbours) - 1)
          [] squareInfo.type = "company" ->
                 (IF Len(owner.companies) = 1 THEN 4 ELSE 10) * D(diceRoll)

\* rentAmount of handlePayment.  The hotel entry is read without "|| 0".
rentAmount(gs, pos, diceRoll) ==
    LET squareInfo == initialBoardState[pos]
        squareState == gs.board[pos]
        owner == gs.players[squareState.owner]
    IN  CASE squareInfo.type = "city" ->
                 IF squareState.hotels > 0 THEN hotelRent(pos)
                 ELSE IF hasMonopoly(owner, squareInfo.country)
                      THEN IF squareState.houses = 0 /\ gs.settings.doubleRentOnMonopoly
                           THEN RentOrZero(pos, 0) * 2
                           ELSE RentOrZero(pos, squareState.houses)
                      ELSE RentOrZero(pos, 0)
          [] squareInfo.type = "airport" -> RentOrZero(pos, Len(owner.airports) - 1)
          [] squareInfo.type = "harbour" -> RentOrZero(pos, Len(owner.harbours) - 1)
          [] squareInfo.type = "company" ->
                 (IF Len(owner.companies) = 1 THEN 4 ELSE 10) * D(diceRoll)

\* A transfer of amount from renter to owner (two increments in one updateDoc).
Transfer(g, renterId, ownerId, amount) ==
    PInc(PInc(g, renterId, "money", Neg(amount)), ownerId, "money", amount)

handlePaymentUpdates(g, gs, renterId, pos, diceRoll) ==
    IF PaymentDue(gs, renterId, pos)
    THEN Transfer(g, renterId, gs.board[pos].owner, rentAmount(gs, pos, diceRoll))
    ELSE g

\* ---------------------------------------------------------------- jail

goToJailUpdates(g, gs, playerId) ==
    LET g1 == PSet(PSet(PSet(PSet(g, playerId, "position", JailSquare),
                             playerId, "inJail", TRUE),
                        playerId, "jailTurns", 1),
                   playerId, "doublesCount", 0)
    IN  [g1 EXCEPT !.jailCount[playerId] = gs.jailCount[playerId] + 1]

jailFine(gs, playerId) ==
    IF gs.settings.increasingJailFine
    THEN D(100) + (gs.jailCount[playerId] - 1) * D(20)
    ELSE D(100)

payJailFineUpdates(g, gs, playerId) ==
    PSet(PInc(g, playerId, "money", -jailFine(gs, playerId)), playerId, "inJail", FALSE)

\* The turn panel of GameRoom is shown to the client whose turn it is.
amIOnTurn(c) == InGame(c) /\ snap[c].currentPlayerTurn = c

\* GameRoom's Pay Fine button and payJailFine.
payJailFine(c) ==
    LET gs == snap[c]
    IN  /\ amIOnTurn(c)
        /\ gs.players[c].inJail /\ ~hasRolled[c]
        /\ gs.players[c].money >= jailFine(gs, c)
        /\ Spend
        /\ UpdateDoc(c, payJailFineUpdates(game, gs, c), payJailFineUpdates(snap[c], gs, c))
        /\ ev' = Event("payJailFine", c, Null, 0, jailFine(gs, c))
        /\ UNCHANGED <<hasRolled, landq, endq, pend>>

handleUsePardonCardUpdates(g, playerId) ==
    PSet(PInc(g, playerId, "getOutOfJailFreeCards", -1), playerId, "inJail", FALSE)

\* GameRoom's Use Get Out of Jail Free Card button and handleUsePardonCard.
handleUsePardonCard(c) ==
    LET gs == snap[c]
    IN  /\ amIOnTurn(c)
        /\ gs.players[c].inJail /\ ~hasRolled[c]
        /\ gs.players[c].getOutOfJailFreeCards > 0
        /\ Spend
        /\ UpdateDoc(c, handleUsePardonCardUpdates(game, c), handleUsePardonCardUpdates(snap[c], c))
        /\ ev' = Event("usePardonCard", c, Null, 0, 0)
        /\ UNCHANGED <<hasRolled, landq, endq, pend>>

\* ---------------------------------------------------------------- turns

\* (oldPosition + diceRoll) % 56
Advance(pos, total) == (pos + total) % BoardSize

\* turnOrder.indexOf(x)
IndexOf(order, x) == CHOOSE i \in 1 .. Len(order) : order[i] = x

\* turnOrder[(currentIndex + 1) % turnOrder.length]
NextInOrder(order, x) == order[(IndexOf(order, x) % Len(order)) + 1]

\* Whether handleEndTurn returns at its debt check.
EndTurnRefused(gs) == gs.players[gs.currentPlayerTurn].money < 0

\* The updateDoc of handleEndTurn, built from the caller's snapshot gs.
handleEndTurnUpdates(g, gs) ==
    LET cur == gs.currentPlayerTurn
        player == gs.players[cur]
        g1 == PSet(g, cur, "doublesCount", 0)
        g2 == IF ~player.inJail THEN g1
              ELSE IF player.jailTurns >= 3
                   THEN PSet(PSet(g1, cur, "inJail", FALSE), cur, "jailTurns", 0)
                   ELSE PInc(g1, cur, "jailTurns", 1)
        next == NextInOrder(gs.turnOrder, cur)
        g3 == IF Len(gs.turnOrder) > 1
              THEN [g2 EXCEPT !.currentPlayerTurn = next,
                              !.movedThisTurn = IF next # g.currentPlayerTurn
                                                THEN [p \in PlayerIds |-> FALSE] ELSE @]
              ELSE g2
    IN  IF player.onVacation THEN PSet(g3, cur, "onVacation", FALSE) ELSE g3

\* GameRoom's End Turn buttons and handleEndTurn.
handleEndTurn(c) ==
    LET gs == snap[c]
        me == gs.players[c]
    IN  /\ amIOnTurn(c)
        /\ \/ hasRolled[c] /\ ~me.onVacation /\ ~me.inJail /\ me.doublesCount = 0
           \/ me.onVacation
        /\ ~EndTurnRefused(gs)
        /\ Spend
        /\ UpdateDoc(c, handleEndTurnUpdates(game, gs), handleEndTurnUpdates(snap[c], gs))
        /\ hasRolled' = [hasRolled EXCEPT ![c] = FALSE]
        /\ ev' = Event("endTurn", c, game.currentPlayerTurn, 0, 0)
        /\ UNCHANGED <<landq, endq, pend>>

\* GameRoom's Continue button: setHasRolled(false) after doubles.
Continue(c) ==
    LET me == snap[c].players[c]
    IN  /\ amIOnTurn(c)
        /\ hasRolled[c] /\ ~me.onVacation /\ ~me.inJail /\ me.doublesCount > 0
        /\ Spend
        /\ hasRolled' = [hasRolled EXCEPT ![c] = FALSE]
        /\ ev' = Event("continue", c, Null, 0, 0)
        /\ UNCHANGED <<game, snap, landq, endq, pend>>

\* The GO credit without the test that the new position is not GO itself.
GoCreditAlsoOnGo(oldPosition, newPosition, inJail) ==
    IF newPosition < oldPosition /\ ~inJail THEN D(200) ELSE 0

\* updates[`players.${id}.money`] = increment(200) of handleRollDice
GoCredit(oldPosition, newPosition, inJail) ==
    IF newPosition < oldPosition /\ newPosition # 0 /\ ~inJail THEN D(200) ELSE 0

\* The updateDoc of an ordinary roll.
rollUpdates(g, playerId, newPosition, doublesCount, credit) ==
    LET g0 == PSet(PSet(g, playerId, "position", newPosition),
                   playerId, "doublesCount", doublesCount)
        g1 == [g0 EXCEPT !.movedThisTurn[playerId] = @ \/ doublesCount = 0]
    IN  IF credit > 0 THEN PInc(g1, playerId, "money", credit) ELSE g1

\* The updateDoc of a roll of doubles in jail.
jailRollUpdates(g, playerId, newPosition) ==
    PSet(PSet(PSet(g, playerId, "inJail", FALSE), playerId, "jailTurns", 0),
         playerId, "position", newPosition)

\* A roll has called setLastDiceRoll and updateDoc; setHasRolled(true) follows
\* when the updateDoc has returned (shown = FALSE until then).
StartLanding(c, diceRoll, third) ==
    /\ landq' = [landq EXCEPT ![c] =
           Append(@, [dice |-> diceRoll, third |-> third, shown |-> FALSE])]
    /\ UNCHANGED <<hasRolled, endq>>

\* The position in landq[c] of the earliest roll whose updateDoc has not returned.
FirstUnshown(q) == CHOOSE i \in 1 .. Len(q) : ~q[i].shown /\ \A j \in 1 .. (i - 1) : q[j].shown

\* The sequence q without its entry i.
Without(q, i) == SubSeq(q, 1, i - 1) \o SubSeq(q, i + 1, Len(q))

\* The await updateDoc of a roll returns and setHasRolled(true) runs.  When
\* hasRolled was false the landing effect starts, with the lastDiceRoll of this
\* render (the dice of the latest roll); when it was true already nothing is
\* rendered anew and no effect runs.
RollWritten(c) ==
    LET q == landq[c]
        i == FirstUnshown(q)
    IN  /\ \E j \in 1 .. Len(q) : ~q[j].shown
        /\ IF hasRolled[c]
           THEN /\ landq' = [landq EXCEPT ![c] = Without(q, i)]
                /\ UNCHANGED hasRolled
           ELSE /\ landq' = [landq EXCEPT ![c] =
                       [q EXCEPT ![i] = [dice |-> q[Len(q)].dice, third |-> q[i].third,
                                         shown |-> TRUE]]]
                /\ hasRolled' = [hasRolled EXCEPT ![c] = TRUE]
        /\ ev' = Event("rollWritten", c, Null, 0, 0)
        /\ UNCHANGED <<game, snap, endq, pend, ops>>

\* handleRollDice of a player who is not in jail.
RollFree(c, die1, die2) ==
    LET gs == snap[c]
        me == gs.players[c]
        diceRoll == die1 + die2
        doublesCount == IF die1 = die2 THEN me.doublesCount + 1 ELSE 0
        newPosition == Advance(me.position, diceRoll)
        credit == GoCredit(me.position, newPosition, me.inJail)
    IN  /\ ~me.inJail /\ ~me.onVacation
        /\ IF doublesCount = 3
           THEN /\ UpdateDoc(c, goToJailUpdates(game, gs, c), goToJailUpdates(snap[c], gs, c))
                /\ StartLanding(c, diceRoll, TRUE)
                /\ ev' = [RollEvent("rollToJail", c, die1, die2, 0) EXCEPT !.third = TRUE]
           ELSE /\ UpdateDoc(c,
                       rollUpdates(game, c, newPosition, doublesCount, credit),
                       rollUpdates(snap[c], c, newPosition, doublesCount, credit))
                /\ StartLanding(c, diceRoll, FALSE)
                /\ ev' = RollEvent("roll", c, die1, die2, credit)

\* handleRollDice of a player who is in jail: doubles free and move the player;
\* anything else writes the log line and, when that write has returned, calls
\* handleEndTurn of the same render (the gameState this call captured).
RollInJail(c, die1, die2) ==
    LET gs == snap[c]
        me == gs.players[c]
        diceRoll == die1 + die2
    IN  /\ me.inJail
        /\ IF die1 = die2
           THEN /\ UpdateDoc(c,
                       jailRollUpdates(game, c, Advance(me.position, diceRoll)),
                       jailRollUpdates(snap[c], c, Advance(me.position, diceRoll)))
                /\ StartLanding(c, diceRoll, FALSE)
                /\ ev' = RollEvent("jailRoll", c, die1, die2, 0)
           ELSE /\ endq' = [endq EXCEPT ![c] = Append(@, gs)]
                /\ UNCHANGED <<game, snap, hasRolled, landq>>
                /\ ev' = RollEvent("jailRollMissed", c, die1, die2, 0)

\* The log write of a failed jail roll has returned: await handleEndTurn(), with
\* the gameState of the render in which the dice were rolled.
EndTurnAfterJailRoll(c) ==
    LET gs == Head(endq[c])
    IN  /\ endq[c] # <<>>
        /\ endq' = [endq EXCEPT ![c] = Tail(@)]
        /\ IF EndTurnRefused(gs)
           THEN /\ UNCHANGED <<game, snap, hasRolled>>
                /\ ev' = Event("jailRollStuck", c, game.currentPlayerTurn, 0, 0)
           ELSE /\ UpdateDoc(c, handleEndTurnUpdates(game, gs),
                                handleEndTurnUpdates(snap[c], gs))
                /\ hasRolled' = IF Len(gs.turnOrder) = 1
                                THEN [hasRolled EXCEPT ![c] = FALSE]
                                ELSE TurnShown(c, NextInOrder(gs.turnOrder, gs.currentPlayerTurn))
                /\ ev' = Event("jailRollFailed", c, game.currentPlayerTurn, 0, 0)
        /\ UNCHANGED <<landq, pend, ops>>

\* GameRoom's Roll Dice / Roll Again / Roll for Doubles buttons and handleRollDice.
handleRollDice(c, die1, die2) ==
    /\ amIOnTurn(c)
    /\ ~hasRolled[c]
    /\ Spend
    /\ RollFree(c, die1, die2) \/ RollInJail(c, die1, die2)
    /\ UNCHANGED pend

\* ---------------------------------------------------------------- cards

TreasureDeck == {"TC01", "TC02", "TC03", "TC04", "TC06", "TC07", "TC12", "TC13", "TC15", "TC18", "TC19"}
SurpriseDeck == {"S01", "S02", "S03", "S04", "S05", "S07", "S08", "S09", "S16", "S18", "S19"}

\* The nearest square of targets ahead of position (S02, S03): the first of the
\* listed squares at the least forward distance.
Distance(from, to) == IF to - from < 0 THEN to - from + BoardSize ELSE to - from

Nearest(targets, position) ==
    CHOOSE i \in 1 .. Len(targets) :
        /\ \A j \in 1 .. Len(targets) :
               Distance(position, targets[i]) <= Distance(position, targets[j])
        /\ \A j \in 1 .. (i - 1) :
               Distance(position, targets[j]) > Distance(position, targets[i])

nearestAirport(position) == <<5, 16, 31, 45>>[Nearest(<<5, 16, 31, 45>>, position)]
nearestUtility(position) == <<12, 26>>[Nearest(<<12, 26>>, position)]

\* Whether the S02 / S03 branch charges: its only test is on the owner field.
CardRentDue(gs, playerId, pos) ==
    gs.board[pos].owner # Null /\ gs.board[pos].owner # playerId

\* rentAmount of S02: twice the airport rent for the airports the owner holds.
airportCardRent(gs, pos) ==
    D(initialBoardState[pos].rent[Len(gs.players[gs.board[pos].owner].airports)]) * 2

\* updates.vacationPot = increment(moneyToPot), when moneyToPot > 0 and
\* taxInVacationPot is set.
toPot(g, gs, moneyToPot) ==
    IF moneyToPot > 0 /\ gs.settings.taxInVacationPot
    THEN [g EXCEPT !.vacationPot = @ + moneyToPot]
    ELSE g

\* A fee card: increment(-fee) on the player's money and moneyToPot = fee.
FeeCard(g, gs, playerId, fee) == toPot(PInc(g, playerId, "money", -fee), gs, fee)

\* The batch of TC07: every player of ps pays amount (one increment each).
RECURSIVE ChargeEach(_, _, _)
ChargeEach(g, ps, amount) ==
    IF ps = {} THEN g
    ELSE LET p == CHOOSE x \in ps : TRUE
         IN  ChargeEach(PInc(g, p, "money", -amount), ps \ {p}, amount)

\* TC07: the drawer collects $50 from every other player of the document read.
collectFromEach(g, gs, playerId, amount) ==
    LET others == PlayerKeys(gs) \ {playerId}
    IN  PInc(ChargeEach(g, others, amount), playerId, "money", amount * Cardinality(others))

\* TC01 and S05 with no test of the cards the player holds.
grantPardonCardAlways(g, gs, playerId) ==
    PInc(PInc(g, playerId, "money", 0), playerId, "getOutOfJailFreeCards", 1)

\* TC01 and S05: a Get Out of Jail Free card for a player who holds none.
grantPardonCard(g, gs, playerId) ==
    LET g1 == PInc(g, playerId, "money", 0)
    IN  IF gs.players[playerId].getOutOfJailFreeCards < 1
        THEN PInc(g1, playerId, "getOutOfJailFreeCards", 1)
        ELSE g1

\* handleCardAction for the cards of TreasureDeck and SurpriseDeck; cardRoll is
\* the dice S03 throws.
handleCardActionUpdates(g, gs, playerId, card, cardRoll) ==
    LET player == gs.players[playerId]
        airport == nearestAirport(player.position)
        utility == nearestUtility(player.position)
    IN  CASE card \in {"TC01", "S05"} -> grantPardonCard(g, gs, playerId)
          [] card \in {"TC02", "S01"} ->
                 PInc(PSet(g, playerId, "position", 0), playerId, "money", D(300))
          [] card = "TC03" -> PInc(g, playerId, "money", D(200))
          [] card = "TC04" -> FeeCard(g, gs, playerId, D(50))
          [] card \in {"TC06", "S07"} -> goToJailUpdates(g, gs, playerId)
          [] card = "TC07" -> collectFromEach(g, gs, playerId, D(50))
          [] card = "S02" ->
                 LET g1 == PSet(g, playerId, "position", airport)
                 IN  IF CardRentDue(gs, playerId, airport)
                     THEN Transfer(g1, playerId, gs.board[airport].owner,
                                   airportCardRent(gs, airport))
                     ELSE g1
          [] card = "S03" ->
                 LET g1 == PSet(g, playerId, "position", utility)
                 IN  IF CardRentDue(gs, playerId, utility)
                     THEN Transfer(g1, playerId, gs.board[utility].owner, D(cardRoll) * 10)
                     ELSE g1
          [] card = "S04" -> PInc(g, playerId, "money", D(50))
          [] card = "S09" -> FeeCard(g, gs, playerId, D(15))
          [] card = "TC12" -> FeeCard(g, gs, playerId, D(100))
          [] card = "TC13" -> FeeCard(g, gs, playerId, D(150))
          [] card = "TC15" ->
                 FeeCard(g, gs, playerId, player.houses * D(40) + player.hotels * D(115))
          [] card = "TC18" -> FeeCard(g, gs, playerId, player.houses * D(120))
          [] card = "TC19" ->
                 FeeCard(g, gs, playerId, player.houses * D(50) + player.hotels * D(125))
          [] card = "S08" ->
                 FeeCard(g, gs, playerId, player.houses * D(25) + player.hotels * D(100))
          [] card = "S16" -> FeeCard(g, gs, playerId, player.houses * D(30))
          [] card = "S18" -> toPot(PInc(g, playerId, "money", 0), gs, D(100))
          [] card = "S19" -> PSet(PInc(g, playerId, "money", 0), playerId, "position", 28)

\* The rent a card hands over, as <<square, owner, amount>>, or <<>> for none.
CardRent(gs, playerId, card, cardRoll) ==
    LET player == gs.players[playerId]
        airport == nearestAirport(player.position)
        utility == nearestUtility(player.position)
    IN  IF card = "S02" /\ CardRentDue(gs, playerId, airport)
        THEN <<airport, gs.board[airport].owner, airportCardRent(gs, airport)>>
        ELSE IF card = "S03" /\ CardRentDue(gs, playerId, utility)
             THEN <<utility, gs.board[utility].owner, D(cardRoll) * 10>>
             ELSE <<>>

\* ---------------------------------------------------------------- landing

\* taxAmount of the 'tax' case: amount 0.10 is a share of the player's money.
taxAmount(pos, money) ==
    IF initialBoardState[pos].amount = 0 THEN FloorTenth(money)
    ELSE D(initialBoardState[pos].amount)

\* handleLandingOnSquare on the document gs that the landing effect read.
handleLandingOnSquareUpdates(g, gs, playerId, newPosition, diceRoll, card, cardRoll) ==
    LET type == initialBoardState[newPosition].type
        player == gs.players[playerId]
        tax == taxAmount(newPosition, player.money)
    IN  CASE type = "go" -> PInc(g, playerId, "money", D(300))
          [] type \in PricedTypes ->
                 IF gs.board[newPosition].owner # Null /\ gs.board[newPosition].owner # playerId
                 THEN handlePaymentUpdates(g, gs, playerId, newPosition, diceRoll)
                 ELSE g
          [] type = "tax" ->
                 LET g1 == PInc(g, playerId, "money", -tax)
                 IN  IF gs.settings.taxInVacationPot
                     THEN [g1 EXCEPT !.vacationPot = @ + tax]
                     ELSE g1
          [] type = "vacation" ->
                 [PSet(PInc(g, playerId, "money", gs.vacationPot), playerId, "onVacation", TRUE)
                     EXCEPT !.vacationPot = 0]
          [] type = "go-to-jail-square" -> goToJailUpdates(g, gs, playerId)
          [] type \in {"treasure", "surprise"} ->
                 handleCardActionUpdates(g, gs, playerId, card, cardRoll)
          [] OTHER -> g

\* The rent a landing hands over, as <<square, owner, amount>>, or <<>> for none.
LandingRent(gs, playerId, newPosition, diceRoll, card, cardRoll) ==
    LET type == initialBoardState[newPosition].type
    IN  IF type \in PricedTypes
        THEN IF PaymentDue(gs, playerId, newPosition)
             THEN <<newPosition, gs.board[newPosition].owner,
                    rentAmount(gs, newPosition, diceRoll)>>
             ELSE <<>>
        ELSE IF type = "surprise" THEN CardRent(gs, playerId, card, cardRoll) ELSE <<>>

\* The cards that may be drawn on a square.
Deck(pos) ==
    CASE initialBoardState[pos].type = "treasure" -> TreasureDeck
      [] initialBoardState[pos].type = "surprise" -> SurpriseDeck
      [] OTHER -> {NoCard}

\* The landing effect's getDoc returns.  The effect goes on only if the document
\* still gives the turn to this client and still holds its record.
LandRead(c) ==
    /\ landq[c] # <<>>
    /\ Head(landq[c]).shown
    /\ pend[c].kind = "none"
    /\ landq' = [landq EXCEPT ![c] = Tail(@)]
    /\ IF game.currentPlayerTurn = c /\ game.players[c].rec # "none"
       THEN pend' = [pend EXCEPT ![c] =
                [kind |-> "landing", latest |-> game,
                 dice |-> Head(landq[c]).dice, third |-> Head(landq[c]).third]]
       ELSE UNCHANGED pend
    /\ ev' = Event("landRead", c, Null, game.players[c].position, 0)
    /\ UNCHANGED <<game, snap, hasRolled, endq, ops>>

\* handleLandingOnSquare runs on the document that was read.
LandWrite(c, card, cardRoll) ==
    LET latest == pend[c].latest
        pos == latest.players[c].position
        rent == LandingRent(latest, c, pos, pend[c].dice, card, cardRoll)
    IN  /\ pend[c].kind = "landing"
        /\ card \in Deck(pos)
        /\ pend' = [pend EXCEPT ![c] = NoPend]
        /\ UpdateDoc(c,
               handleLandingOnSquareUpdates(game, latest, c, pos, pend[c].dice, card, cardRoll),
               handleLandingOnSquareUpdates(snap[c], latest, c, pos, pend[c].dice, card,
                                            cardRoll))
        /\ ev' = [(IF rent = <<>> THEN Event("land", c, Null, pos, 0)
                   ELSE Event("rent", c, rent[2], rent[1], rent[3]))
                     EXCEPT !.third = pend[c].third, !.card = card]
        /\ UNCHANGED <<hasRolled, landq, endq, ops>>

\* ---------------------------------------------------------------- scenarios

\* The document after player p has bought square pos at list price in an earlier
\* turn (buyProperty).
Owning(g, p, pos) == buyPropertyUpdates(g, p, pos)

\* Every client has rendered the document; nothing is in flight.
Quiet(g, rolled, budget) ==
    /\ game = g
    /\ snap = [c \in PlayerIds |-> g]
    /\ hasRolled = [c \in PlayerIds |-> c \in rolled]
    /\ landq = [c \in PlayerIds |-> <<>>]
    /\ endq = [c \in PlayerIds |-> <<>>]
    /\ pend = [c \in PlayerIds |-> NoPend]
    /\ ops = budget
    /\ ev = NoEvent

\* ---------------------------------------------------------------- SpecOwn
\* Ownership: buying, selling, auctions, trades and bankruptcy on two squares.

MaxOpsOwn == 3

\* The clients that act; the third player's client stays idle.
OwnActors == {"a", "b"}

OwnSquares == {3, 5}
OwnBids == {D(40), D(60)}
OwnBundles == {[money |-> 0, properties |-> ps] : ps \in SUBSET OwnSquares}

\* Turn order b, c, a in the first round: b rolled 2 + 3 and bought Airport 1, c
\* rolled 3 + 5 and bought nothing, a rolled 1 + 2 and stands on Sao Paulo with
\* the landing resolved.
OwnStart ==
    LET g0 == StartedGame(DefaultSettings, <<"b", "c", "a">>)
        g1 == PSet(Owning(g0, "b", 5), "b", "position", 5)
        g2 == PSet(g1, "c", "position", 8)
        g3 == PSet(g2, "a", "position", 3)
    IN  [g3 EXCEPT !.currentPlayerTurn = "a"]

InitOwn == Quiet(OwnStart, {"a"}, MaxOpsOwn)

NextOwn ==
    \E c \in OwnActors :
        \/ Sync(c)
        \/ buyProperty(c)
        \/ \E pos \in OwnSquares : sellProperty(c, pos)
        \/ startBankAuction(c)
        \/ \E pos \in OwnSquares : startOwnedAuction(c, pos, D(30))
        \/ \E b \in OwnBids : placeBid(c, b)
        \/ handleCloseAuction(c)
        \/ EndAuctionRead(c)
        \/ EndAuctionReadAgain(c)
        \/ EndAuctionWrite(c)
        \/ \E q \in OwnActors, o \in OwnBundles, r \in OwnBundles :
               handleSendOffer(c, "t1", q, o, r)
        \/ handleAcceptTrade(c, "t1")
        \/ handleRejectTrade(c, "t1")
        \/ handleCancelTrade(c, "t1")
        \/ handleBankruptcy(c)

SpecOwn == InitOwn /\ [][NextOwn]_vars

\* C1: for every priced square p and every player q, board[p].owner = q exactly
\* when p is in q's holdings array of p's type.
C1_OwnerMatchesHoldings ==
    \A p \in Priced : \A q \in PlayerIds :
        (game.board[p].owner = q) <=> Includes(game.players[q][ownershipArray(p)], p)

\* C2: no property id is in the holdings of two different players.
C2_HeldByAtMostOne ==
    \A p \in Priced : \A q1, q2 \in PlayerIds :
        (p \in Holdings(game, q1) /\ p \in Holdings(game, q2)) => q1 = q2

\* ---------------------------------------------------------------- SpecBuild
\* Houses, hotels and mortgages on the cities of one country.

MaxOpsBuild == 6

BuildActors == {"a", "b"}
BuildSquares == {1, 3}

\* Player a has bought the three cities of Brazil in earlier turns.
BuildStart ==
    LET g0 == StartedGame(DefaultSettings, <<"a", "b", "c">>)
        g1 == Owning(Owning(Owning(g0, "a", 1), "a", 3), "a", 6)
        g2 == PSet(PSet(PSet(g1, "a", "position", 6), "b", "position", 8), "c", "position", 9)
    IN  [g2 EXCEPT !.currentPlayerTurn = "b"]

InitBuild == Quiet(BuildStart, {}, MaxOpsBuild)

NextBuild ==
    \E c \in BuildActors :
        \/ Sync(c)
        \/ \E pos \in BuildSquares : buildHouse(c, pos)
        \/ \E pos \in BuildSquares : sellHouse(c, pos)
        \/ \E pos \in BuildSquares : mortgageProperty(c, pos)
        \/ \E pos \in BuildSquares : unmortgageProperty(c, pos)

SpecBuild == InitBuild /\ [][NextBuild]_vars

\* C3: every property has houses in 0..4 and hotels in {0, 1}, and never a hotel
\* together with houses.
C3_BuildingsInRange ==
    \A p \in Priced :
        /\ game.board[p].houses \in 0 .. 4
        /\ game.board[p].hotels \in {0, 1}
        /\ ~(game.board[p].hotels = 1 /\ game.board[p].houses > 0)

\* ---------------------------------------------------------------- SpecTrade
\* One trade between two players: offer, accept, reject, cancel.

MaxOpsTrade == 3

TradeActors == {"a", "b"}
TradeMoney == {0, D(100), D(1500)}
TradeBundles ==
    {[money |-> m, properties |-> ps] : m \in TradeMoney, ps \in SUBSET OwnSquares}

\* As OwnStart, and a has bought Sao Paulo.
TradeStart == Owning(OwnStart, "a", 3)

\* The trade is made after a has bought Sao Paulo, or while a still stands on it
\* and can buy it.
InitTrade == \E g \in {TradeStart, OwnStart} : Quiet(g, {"a"}, MaxOpsTrade)

NextTrade ==
    \E c \in TradeActors :
        \/ Sync(c)
        \/ \E q \in TradeActors, o \in TradeBundles, r \in TradeBundles :
               handleSendOffer(c, "t1", q, o, r)
        \/ handleAcceptTrade(c, "t1")
        \/ handleRejectTrade(c, "t1")
        \/ handleCancelTrade(c, "t1")
        \/ buyProperty(c)

SpecTrade == InitTrade /\ [][NextTrade]_vars

\* No player's money and no property's owner differs between documents g and h.
SameMoneyAndOwners(g, h) ==
    /\ \A p \in PlayerIds : g.players[p].money = h.players[p].money
    /\ \A pos \in Priced : g.board[pos].owner = h.board[pos].owner

\* Money moved between the parties of trade exactly as the trade states.
MoneyAsStated(g, h, trade) ==
    /\ h.players[trade.fromPlayer].money =
           g.players[trade.fromPlayer].money - trade.offer.money + trade.request.money
    /\ h.players[trade.toPlayer].money =
           g.players[trade.toPlayer].money + trade.offer.money - trade.request.money

\* C4: an accept either exchanges the money as the trade states or changes nothing,
\* and a trade is accepted at most once: an accept of a trade that was accepted
\* before leaves players and board as they were.
C4_AcceptedAtMostOnce ==
    [][ /\ (ev'.op = "accept" /\ game.trades[ev'.t].status = "pending")
               => MoneyAsStated(game, game', game.trades[ev'.t])
        /\ (ev'.op = "accept" /\ game.trades[ev'.t].status = "accepted")
               => (game'.players = game.players /\ game'.board = game.board)
        /\ (ev'.op = "acceptThrows") => (game' = game) ]_vars

\* C5: an accept of a trade that was rejected, cancelled or accepted before
\* changes no player's money and no property's owner.
C5_ResolvedTradeStaysResolved ==
    [][ (ev'.op = "accept"
            /\ game.trades[ev'.t].status \in {"rejected", "cancelled", "accepted"})
         => SameMoneyAndOwners(game, game') ]_vars

\* ---------------------------------------------------------------- SpecAuction
\* One bank auction with two bidders and the host's settlement.

MaxOpsAuction == 3

AuctionActors == {"a", "b", "c"}

InitAuction == Quiet(OwnStart, {"a"}, MaxOpsAuction)

NextAuction ==
    \E c \in AuctionActors :
        \/ Sync(c)
        \/ startBankAuction(c)
        \/ \E b \in OwnBids : placeBid(c, b)
        \/ handleCloseAuction(c)
        \/ EndAuctionRead(c)
        \/ EndAuctionReadAgain(c)
        \/ EndAuctionWrite(c)

SpecAuction == InitAuction /\ [][NextAuction]_vars

\* C6: a settlement awards the square to a bidder whose bid is the maximum of the
\* bids in the ledger and debits that bid; it awards nothing only when the ledger
\* is empty.
C6_SettlesAtLedgerMaximum ==
    [][ (ev'.op = "settle") =>
          (IF ev'.p = Null THEN Bidders(game.auction) = {}
           ELSE /\ \A q \in PlayerIds : game.auction.bids[q] <= game.auction.bids[ev'.p]
                /\ game'.board[ev'.pos].owner = ev'.p
                /\ game'.players[ev'.p].money =
                       game.players[ev'.p].money - game.auction.bids[ev'.p]) ]_vars

\* ---------------------------------------------------------------- SpecTurn
\* The turn of player a: rolls, landings, jail, and the turn passing to b.

MaxOpsTurn == 4

TurnActors == {"a", "b"}
Dice == {<<1, 2>>, <<2, 2>>, <<3, 3>>}
TurnCards == {NoCard, "TC03", "TC07", "S02", "S03"}
CardRolls == {7}

\* Player b holds Airport 2 (square 16), mortgaged, and Tech Corp (square 12).
TurnBoard ==
    LET g0 == StartedGame(DefaultSettings, <<"a", "b", "c">>)
        g1 == Owning(Owning(g0, "b", 16), "b", 12)
        g2 == BSet(PInc(g1, "b", "money", mortgageValue(16)), 16, "mortgaged", TRUE)
    IN  PSet(PSet(g2, "b", "position", 16), "c", "position", 20)

\* a starts its turn on Canberra (square 52).
TurnNearGo == PSet(TurnBoard, "a", "position", 52)

\* a rolled 1 + 1 from square 1 to Sao Paulo (square 3) and pressed Continue.
TurnAfterDoubles == PSet(PSet(TurnBoard, "a", "position", 3), "a", "doublesCount", 1)

\* a starts its turn in jail, holding a Get Out of Jail Free card.
TurnInJail ==
    PSet(goToJailUpdates(TurnBoard, TurnBoard, "a"), "a", "getOutOfJailFreeCards", 1)

\* b starts its turn on Airport 2 (square 16); a, who comes next, has $30 left.
TurnOfB ==
    LET g == PSet(PSet(TurnBoard, "a", "position", 52), "a", "money", D(30))
    IN  [g EXCEPT !.currentPlayerTurn = "b", !.turnOrder = <<"b", "a", "c">>]

TurnStarts == {TurnNearGo, TurnAfterDoubles, TurnInJail, TurnOfB}

InitTurn == \E g \in TurnStarts : Quiet(g, {}, MaxOpsTurn)

NextTurn ==
    \E c \in TurnActors :
        \/ Sync(c)
        \/ \E d \in Dice : handleRollDice(c, d[1], d[2])
        \/ RollWritten(c)
        \/ LandRead(c)
        \/ \E card \in TurnCards, r \in CardRolls : LandWrite(c, card, r)
        \/ Continue(c)
        \/ handleEndTurn(c)
        \/ EndTurnAfterJailRoll(c)
        \/ payJailFine(c)
        \/ handleUsePardonCard(c)

SpecTurn == InitTurn /\ [][NextTurn]_vars

\* C7: rent is handed over only for a square that has an owner other than the
\* renter, is not mortgaged, and whose owner is not in jail unless rentInJail is
\* set; the amount is never negative.
C7_RentOnlyWhenDue ==
    [][ (ev'.op = "rent") =>
          ( /\ game.board[ev'.pos].owner # Null
            /\ game.board[ev'.pos].owner # ev'.p
            /\ ~game.board[ev'.pos].mortgaged
            /\ ~(game.players[game.board[ev'.pos].owner].inJail /\ ~game.settings.rentInJail)
            /\ ev'.amt >= 0 ) ]_vars

\* The money a step added to player p.
Gain(p) == game'.players[p].money - game.players[p].money

\* C8: a roll that moves the player by the dice credits $200 exactly when the new
\* position is lower than the old one and the player was not in jail, and
\* nothing otherwise.
C8_GoCreditOnWrap ==
    [][ (ev'.op \in {"roll", "jailRoll"}) =>
          (Gain(ev'.p) =
              IF game'.players[ev'.p].position < game.players[ev'.p].position
                 /\ ~game.players[ev'.p].inJail
              THEN D(200) ELSE 0) ]_vars

\* C8 as the code has it: the roll credits $200 exactly when the new position is
\* lower than the old one and is not GO itself, and the player was not in jail; a
\* landing on GO credits $300 when it is resolved.
C8_GoCreditOnWrapPastGo ==
    [][ /\ (ev'.op \in {"roll", "jailRoll"}) =>
              (Gain(ev'.p) =
                  IF game'.players[ev'.p].position < game.players[ev'.p].position
                     /\ game'.players[ev'.p].position # 0
                     /\ ~game.players[ev'.p].inJail
                  THEN D(200) ELSE 0)
        /\ (ev'.op = "land" /\ ev'.pos = 0) => (Gain(ev'.p) = D(300)) ]_vars

\* A roll has just wrapped past GO and was credited.
C8_Witness == ev.op = "roll" /\ ev.amt = D(200) /\ game.players[ev.p].position < 12

\* C9: a roll of doubles by a player with two doubles in this turn sends the
\* player to jail (position 14, inJail, doublesCount 0) with no money credited,
\* and the landing resolved for that roll changes no player and not the pot.
C9_ThirdDoublesToJail ==
    [][ /\ (ev'.op \in {"roll", "rollToJail"} /\ ev'.d1 = ev'.d2
                /\ game.players[ev'.p].doublesCount = 2)
               => ( /\ game'.players[ev'.p].position = JailSquare
                    /\ game'.players[ev'.p].inJail
                    /\ game'.players[ev'.p].doublesCount = 0
                    /\ Gain(ev'.p) = 0 )
        /\ (ev'.op \in {"land", "rent"} /\ ev'.third)
               => (game'.players = game.players /\ game'.vacationPot = game.vacationPot) ]_vars

\* C10: when a player declares bankruptcy while at least two other players are in
\* the document, every square that player owns is returned to the bank, the
\* player's record is removed, and the game stays in progress with no winner.
C10_BankruptcyReturnsProperties ==
    [][ (ev'.op = "bankruptcy" /\ Cardinality(PlayerKeys(game) \ {ev'.p}) >= 2) =>
          ( /\ \A pos \in Priced :
                   (game.board[pos].owner = ev'.p) => (game'.board[pos] = NoProperty)
            /\ game'.players[ev'.p].rec = "none"
            /\ game'.status = "in-progress"
            /\ game'.winner = Null ) ]_vars

\* C11: whenever exactly one player is left in the document, the game is finished
\* and the winner is that player.
C11_LastPlayerWins ==
    (Cardinality(PlayerKeys(game)) = 1) =>
        (game.status = "finished" /\ game.winner \in PlayerKeys(game))

\* ---------------------------------------------------------------- SpecRent
\* Player b holds the three cities of Brazil and builds on them while a rolls
\* from GO and lands on them.

MaxOpsRent == 4

RentActors == {"a", "b"}
RentSquares == {3, 6}

\* Player b has bought Rio de Janeiro, Sao Paulo and Brasilia in earlier turns; the game
\* runs with or without the double-rent rule.
RentStart(double) ==
    LET g0 == StartedGame([DefaultSettings EXCEPT !.doubleRentOnMonopoly = double],
                          <<"a", "b", "c">>)
        g1 == Owning(Owning(Owning(g0, "b", 1), "b", 3), "b", 6)
    IN  PSet(PSet(g1, "b", "position", 8), "c", "position", 9)

InitRent == \E double \in BOOLEAN : Quiet(RentStart(double), {}, MaxOpsRent)

NextRent ==
    \E c \in RentActors :
        \/ Sync(c)
        \/ \E d \in Dice : handleRollDice(c, d[1], d[2])
        \/ RollWritten(c)
        \/ LandRead(c)
        \/ LandWrite(c, NoCard, 7)
        \/ Continue(c)
        \/ \E pos \in RentSquares : buildHouse(c, pos)
        \/ \E pos \in RentSquares : sellHouse(c, pos)
        \/ \E pos \in RentSquares : mortgageProperty(c, pos)

SpecRent == InitRent /\ [][NextRent]_vars

\* The landing that is being resolved by client c finds, in the document it read,
\* a city without buildings whose owner holds every city of the country, with
\* the double-rent rule on.
BareMonopolyCity(c) ==
    LET latest == pend[c].latest
        pos == latest.players[c].position
    IN  /\ pend[c].kind = "landing"
        /\ initialBoardState[pos].type = "city"
        /\ latest.board[pos].owner \notin {Null, c}
        /\ hasMonopoly(latest.players[latest.board[pos].owner], initialBoardState[pos].country)
        /\ latest.settings.doubleRentOnMonopoly
        /\ latest.board[pos].houses = 0
        /\ latest.board[pos].hotels = 0

\* C12: rent handed over for a city without buildings whose owner holds every
\* city of the country, with doubleRentOnMonopoly on, is twice the first entry
\* of the city's rent table, taken from the renter and given to the owner.
C12_MonopolyDoublesBaseRent ==
    [][ (ev'.op = "rent" /\ BareMonopolyCity(ev'.p)) =>
          ( /\ Gain(ev'.p) = -(2 * D(initialBoardState[ev'.pos].rent[1]))
            /\ Gain(ev'.q) = 2 * D(initialBoardState[ev'.pos].rent[1]) ) ]_vars

\* Player a has paid the doubled base rent of Sao Paulo to b.
C12_Witness ==
    /\ ev.op = "rent" /\ ev.pos = 3 /\ ev.q = "b"
    /\ game.settings.doubleRentOnMonopoly
    /\ game.players["a"].money = D(1500) - D(8)
    /\ game.players["b"].money = D(1500) - D(200) + D(8)

\* C14: a roll or an end of turn that is applied when the document gives the
\* turn to another player changes neither currentPlayerTurn nor any player's
\* position, inJail or jailTurns.
C14_StaleTurnRejected ==
    [][ (ev'.op \in {"roll", "rollToJail", "jailRoll", "jailRollMissed", "jailRollFailed",
                     "jailRollStuck", "endTurn"}
            /\ game.currentPlayerTurn # ev'.p) =>
          ( /\ game'.currentPlayerTurn = game.currentPlayerTurn
            /\ \A p \in PlayerIds :
                   /\ game'.players[p].position = game.players[p].position
                   /\ game'.players[p].inJail = game.players[p].inJail
                   /\ game'.players[p].jailTurns = game.players[p].jailTurns ) ]_vars

\* C13: an end of turn, pressed or reached through a failed jail roll, by a player
\* whose money in the document is negative leaves currentPlayerTurn and that
\* player's doublesCount, jailTurns and onVacation as they were.
C13_NoEndTurnInDebt ==
    [][ (ev'.op \in {"endTurn", "jailRollFailed", "jailRollStuck"}
            /\ game.currentPlayerTurn = ev'.p
            /\ game.players[ev'.p].money < 0) =>
          ( /\ game'.currentPlayerTurn = game.currentPlayerTurn
            /\ game'.players[ev'.p].doublesCount = game.players[ev'.p].doublesCount
            /\ game'.players[ev'.p].jailTurns = game.players[ev'.p].jailTurns
            /\ game'.players[ev'.p].onVacation = game.players[ev'.p].onVacation ) ]_vars

\* C15: no money update is lost.  The step that settles an auction changes every
\* player's money in the document by exactly the deltas of the settlement: the
\* winner pays the bid, the seller of a seller-initiated auction receives the bid
\* less the tenth, and nobody else's money changes; whatever was added to or
\* taken from a player before that step is still counted.
C15_NoLostMoneyUpdate ==
    [][ (ev'.op = "settle" /\ ev'.p # Null) =>
          (\A q \in PlayerIds :
               Gain(q) = (IF q = ev'.p THEN -ev'.amt ELSE 0)
                            + (IF q = ev'.q THEN ev'.amt - FloorTenth(ev'.amt) ELSE 0)) ]_vars

\* C16: every auction is settled at most once: a settlement with a winner that is
\* applied to an auction already settled debits nobody, credits nobody and moves
\* no square.
C16_SettledAtMostOnce ==
    [][ (ev'.op = "settle" /\ ev'.p # Null /\ game.auction.settled >= 1) =>
          (game'.players = game.players /\ game'.board = game.board) ]_vars

\* C17: an accept whose transaction reads a proposer with less money than the
\* trade offers, or a counterparty with less money than it requests, writes
\* nothing (money, owners and the trades map stay as they were); an accept that
\* is applied leaves no party with negative money that had none before.
C17_UnfundedAcceptAborts ==
    [][ (ev'.op \in {"accept", "acceptThrows"}) =>
          (LET trade == snap[ev'.p].trades[ev'.t]
               from == trade.fromPlayer
               to == trade.toPlayer
           IN  /\ (game.players[from].money < trade.offer.money
                      \/ game.players[to].money < trade.request.money) => (game' = game)
               /\ (ev'.op = "accept") =>
                      ( /\ (game.players[from].money >= 0) => (game'.players[from].money >= 0)
                        /\ (game.players[to].money >= 0) => (game'.players[to].money >= 0) )) ]_vars

\* An accept has just been refused for lack of money, and the trade is still in
\* the trades map.
C17_Witness ==
    /\ ev.op = "acceptThrows"
    /\ game.trades[ev.t].status = "pending"
    /\ game.players[ev.p].rec = "full" /\ game.players[ev.q].rec = "full"
    /\ \/ game.players[ev.q].money < game.trades[ev.t].offer.money
       \/ game.players[ev.p].money < game.trades[ev.t].request.money

\* C18: a bid is written to the document only for an active auction, by a player
\* other than the seller who has no bid in it yet, for more than every bid
\* recorded in it, and for no more than the bidder's money.
C18_BidsAreValidWhenWritten ==
    [][ (ev'.op = "bid") =>
          ( /\ game.auction.active
            /\ game.auction.sellerId # ev'.p
            /\ game.auction.bids[ev'.p] = 0
            /\ \A q \in PlayerIds : ev'.amt > game.auction.bids[q]
            /\ ev'.amt <= game.players[ev'.p].money ) ]_vars

\* ---------------------------------------------------------------- SpecSale
\* One seller-initiated auction: a owns Sao Paulo and puts it up for auction,
\* b and c bid, the host settles; b may sell Airport 1 meanwhile.

MaxOpsSale == 3

SaleActors == {"a", "b", "c"}
SaleSquares == {3, 5}
SaleBids == {D(45), D(60)}

SaleStart(taxInVacationPot) ==
    LET g == Owning(OwnStart, "a", 3)
    IN  [g EXCEPT !.settings.taxInVacationPot = taxInVacationPot]

InitSale == \E taxInVacationPot \in BOOLEAN : Quiet(SaleStart(taxInVacationPot), {"a"}, MaxOpsSale)

NextSale ==
    \E c \in SaleActors :
        \/ Sync(c)
        \/ \E pos \in SaleSquares : sellProperty(c, pos)
        \/ \E pos \in SaleSquares : startOwnedAuction(c, pos, D(30))
        \/ \E b \in SaleBids : placeBid(c, b)
        \/ handleCloseAuction(c)
        \/ EndAuctionRead(c)
        \/ EndAuctionReadAgain(c)
        \/ EndAuctionWrite(c)

SpecSale == InitSale /\ [][NextSale]_vars

PotGain == game'.vacationPot - game.vacationPot

C20_CancelledOnlyWhileUnbid ==
    [][ (ev'.op = "closeAuction") => (Bidders(game.auction) = {}) ]_vars

MaxOpsDeed == 4

DeedActors == {"a", "b"}
DeedSquares == {1, 3}
DeedBundles == {[money |-> 0, properties |-> ps] : ps \in {{}, {1}}}

InitDeed == Quiet(BuildStart, {}, MaxOpsDeed)

NextDeed ==
    \E c \in DeedActors :
        \/ Sync(c)
        \/ \E q \in DeedActors, o \in DeedBundles, r \in DeedBundles :
               handleSendOffer(c, "t1", q, o, r)
        \/ handleAcceptTrade(c, "t1")
        \/ \E pos \in DeedSquares : buildHouse(c, pos)
        \/ \E pos \in DeedSquares : sellHouse(c, pos)
        \/ \E pos \in DeedSquares : mortgageProperty(c, pos)
        \/ \E pos \in DeedSquares : unmortgageProperty(c, pos)

SpecDeed == InitDeed /\ [][NextDeed]_vars

\* C22: a mortgaged property carries no house and no hotel.
C22_MortgagedHasNoBuildings ==
    \A p \in Priced :
        game.board[p].mortgaged => (game.board[p].houses = 0 /\ game.board[p].hotels = 0)

\* C23: after a move by a roll that was not doubles, the player does not move by
\* a roll again while the turn is still theirs.
C23_NoSecondMoveAfterPlainRoll ==
    [][ (ev'.op \in {"roll", "rollToJail", "jailRoll"} /\ game.currentPlayerTurn = ev'.p)
          => ~game.movedThisTurn[ev'.p] ]_vars

\* C24: an end of turn that is written gives the turn to the entry of turnOrder
\* that follows the player who held it, the first entry following the last, and
\* leaves that player's doublesCount at 0.
C24_TurnPassesToNextInOrder ==
    [][ (ev'.op \in {"endTurn", "jailRollFailed"}) =>
          ( /\ game'.currentPlayerTurn = NextInOrder(game.turnOrder, game.currentPlayerTurn)
            /\ game'.players[game.currentPlayerTurn].doublesCount = 0 ) ]_vars

\* ---------------------------------------------------------------- SpecEstate
\* For each city of the board: player b holds the city's country and has built a
\* hotel on the city; b goes on managing the country while a, standing three
\* squares before the city, rolls 1 + 2 and lands on it.

MaxOpsEstate == 3

Cities == {p \in Squares : initialBoardState[p].type = "city"}

\* buyProperty for every square of ps, in earlier turns.
RECURSIVE OwningAll(_, _, _)
OwningAll(g, p, ps) ==
    IF ps = {} THEN g
    ELSE LET pos == CHOOSE x \in ps : TRUE
         IN  OwningAll(Owning(g, p, pos), p, ps \ {pos})

\* buildHouse pressed n times on cityId, in earlier turns.
RECURSIVE Built(_, _, _, _)
Built(g, p, cityId, n) ==
    IF n = 0 THEN g ELSE Built(buildHouseUpdates(g, g, p, cityId), p, cityId, n - 1)

\* The game was started with $3000 each.
EstateStart(cityId) ==
    LET g0 == StartedGame([DefaultSettings EXCEPT !.initialMoney = D(3000)], <<"a", "b", "c">>)
        country == countryData[initialBoardState[cityId].country]
        g1 == Built(OwningAll(g0, "b", country.cities), "b", cityId, 5)
    IN  PSet(g1, "a", "position", (cityId + BoardSize - 3) % BoardSize)

InitEstate == \E cityId \in Cities : Quiet(EstateStart(cityId), {}, MaxOpsEstate)

NextEstate ==
    \E c \in TurnActors :
        \/ Sync(c)
        \/ handleRollDice(c, 1, 2)
        \/ RollWritten(c)
        \/ LandRead(c)
        \/ LandWrite(c, NoCard, 7)
        \/ \E pos \in Cities : buildHouse(c, pos)
        \/ \E pos \in Cities : sellHouse(c, pos)
        \/ \E pos \in Cities : mortgageProperty(c, pos)
        \/ \E pos \in Cities : unmortgageProperty(c, pos)
        \/ \E pos \in Cities : sellProperty(c, pos)

SpecEstate == InitEstate /\ [][NextEstate]_vars

\* C25: every player's money is a whole number of dollars.
C25_MoneyIsInteger ==
    \A p \in PlayerIds : game.players[p].money # NaN /\ game.players[p].money % Unit = 0

\* The landing that is being resolved by client c finds, in the document it read,
\* a city that owes rent.
RentedCity(c) ==
    LET latest == pend[c].latest
        pos == latest.players[c].position
    IN  /\ pend[c].kind = "landing"
        /\ initialBoardState[pos].type = "city"
        /\ PaymentDue(latest, c, pos)

\* The owner of that city does not hold every city of its country.
WithoutMonopoly(c) ==
    LET latest == pend[c].latest
        pos == latest.players[c].position
    IN  ~hasMonopoly(latest.players[latest.board[pos].owner], initialBoardState[pos].country)

\* A hotel stands on that city.
WithHotel(c) ==
    LET latest == pend[c].latest
    IN  latest.board[latest.players[c].position].hotels > 0

\* C26: rent handed over for a city whose owner does not hold every city of the
\* country is the first entry of the city's rent table, whatever stands on it.
C26_BaseRentWithoutMonopoly ==
    [][ (ev'.op = "rent" /\ RentedCity(ev'.p) /\ WithoutMonopoly(ev'.p)) =>
          ( /\ Gain(ev'.p) = -D(initialBoardState[ev'.pos].rent[1])
            /\ Gain(ev'.q) = D(initialBoardState[ev'.pos].rent[1]) ) ]_vars

\* C27: rent handed over for a city with a hotel is the sixth entry of the
\* city's rent table, and the table has that entry.
C27_HotelRentIsDefined ==
    [][ (ev'.op = "rent" /\ RentedCity(ev'.p) /\ WithHotel(ev'.p)) =>
          ( /\ Len(initialBoardState[ev'.pos].rent) >= 6
            /\ Gain(ev'.p) = -hotelRent(ev'.pos)
            /\ Gain(ev'.q) = hotelRent(ev'.pos)
            /\ game'.players[ev'.p].money # NaN
            /\ game'.players[ev'.q].money # NaN ) ]_vars

\* ---------------------------------------------------------------- SpecSkip
\* Turns a player sits out: a starts its turn in jail, in its first, second or
\* third jail turn, or starts it on Munich (square 25), three squares before
\* Vacation (square 28).  Nobody pays a fine or uses a card.

MaxOpsSkip == 4

MaxJailTurns == 3

SkipDice == {<<1, 2>>, <<2, 2>>}

SkipBoard == StartedGame(DefaultSettings, <<"a", "b", "c">>)

\* a was sent to jail and has since failed n - 1 rolls for doubles.
SkipInJail(n) == PSet(goToJailUpdates(SkipBoard, SkipBoard, "a"), "a", "jailTurns", n)

SkipNearVacation == PSet(SkipBoard, "a", "position", 25)

SkipStarts == {SkipInJail(n) : n \in 1 .. MaxJailTurns} \cup {SkipNearVacation}

InitSkip == \E g \in SkipStarts : Quiet(g, {}, MaxOpsSkip)

NextSkip ==
    \E c \in TurnActors :
        \/ Sync(c)
        \/ \E d \in SkipDice : handleRollDice(c, d[1], d[2])
        \/ RollWritten(c)
        \/ LandRead(c)
        \/ LandWrite(c, NoCard, 7)
        \/ Continue(c)
        \/ handleEndTurn(c)
        \/ EndTurnAfterJailRoll(c)

SpecSkip == InitSkip /\ [][NextSkip]_vars

\* C28: jailTurns never exceeds 3, and the end of turn that follows a failed roll
\* for doubles in the third jail turn releases the player (inJail = false,
\* jailTurns = 0).
C28_ReleasedByThirdJailTurn ==
    [][ /\ \A p \in PlayerIds : game'.players[p].jailTurns <= MaxJailTurns
        /\ (ev'.op = "jailRollFailed" /\ game.players[ev'.p].inJail
              /\ game.players[ev'.p].jailTurns >= MaxJailTurns)
             => ( /\ ~game'.players[ev'.p].inJail
                  /\ game'.players[ev'.p].jailTurns = 0 ) ]_vars

\* C29: a player's onVacation flag is cleared only by the end of a turn in which
\* that player has not moved (the skipped turn), never by the end of the turn in
\* which the player landed on Vacation.
C29_VacationSkipsNextTurn ==
    [][ \A p \in PlayerIds :
          (game.players[p].onVacation /\ ~game'.players[p].onVacation) =>
             (ev'.op = "endTurn" /\ ~game.movedThisTurn[p]) ]_vars

\* ---------------------------------------------------------------- SpecCards
\* Fee cards: player a holds Brazil with two houses on Rio de Janeiro and a hotel on
\* Sao Paulo, stands three squares before a Treasure Chest (square 19) or a
\* Surprise square (square 23), rolls 1 + 2 and draws a card that charges a fee,
\* or the free vacation card S19.
\* The game runs with taxInVacationPot set or not.

MaxOpsCards == 3

FeeCards == {"TC04", "TC12", "TC13", "TC15", "TC18", "TC19", "S08", "S09", "S16", "S18"}

CardSquares == {19, 23}

CardsStart(taxInVacationPot, square) ==
    LET g0 == StartedGame([DefaultSettings EXCEPT !.taxInVacationPot = taxInVacationPot],
                          <<"a", "b", "c">>)
        g1 == Built(Built(OwningAll(g0, "a", countryData["Brazil"].cities), "a", 1, 2), "a", 3, 5)
    IN  PSet(g1, "a", "position", square - 3)

InitCards ==
    \E tax \in BOOLEAN, square \in CardSquares : Quiet(CardsStart(tax, square), {}, MaxOpsCards)

NextCards ==
    \E c \in TurnActors :
        \/ Sync(c)
        \/ handleRollDice(c, 1, 2)
        \/ RollWritten(c)
        \/ LandRead(c)
        \/ \E card \in FeeCards \cup {"S19"} : LandWrite(c, card, 7)
        \/ handleEndTurn(c)
        \/ \E pos \in BuildSquares : buildHouse(c, pos)
        \/ \E pos \in BuildSquares : sellHouse(c, pos)

SpecCards == InitCards /\ [][NextCards]_vars

\* The fee a card names, for a player with the given numbers of houses and hotels.
FeeAsStated(card, houses, hotels) ==
    CASE card = "TC04" -> D(50)
      [] card = "TC12" -> D(100)
      [] card = "TC13" -> D(150)
      [] card = "TC15" -> houses * D(40) + hotels * D(115)
      [] card = "TC18" -> houses * D(120)
      [] card = "TC19" -> houses * D(50) + hotels * D(125)
      [] card = "S08" -> houses * D(25) + hotels * D(100)
      [] card = "S09" -> D(15)
      [] card = "S16" -> houses * D(30)
      [] card = "S18" -> D(100)

\* The fee of the card drawn by the landing that client c is resolving, from the
\* document that landing read.
FeeDrawn(c, card) ==
    LET player == pend[c].latest.players[c]
    IN  FeeAsStated(card, player.houses, player.hotels)

\* C30: a fee card takes its fee from the player who drew it, and adds that same
\* amount to the vacation pot when taxInVacationPot is set and nothing when it is
\* not; the pot never gains what no player has paid.
C30_FeeCardsDebitWhatThePotGains ==
    [][ (ev'.op = "land" /\ ev'.card \in FeeCards) =>
          ( /\ Gain(ev'.p) = -FeeDrawn(ev'.p, ev'.card)
            /\ PotGain = (IF pend[ev'.p].latest.settings.taxInVacationPot
                          THEN FeeDrawn(ev'.p, ev'.card) ELSE 0)
            /\ PotGain <= -Gain(ev'.p) ) ]_vars

\* C31: the card S19 puts the player who drew it on Vacation (square 28), leaves
\* the player's money and the vacation pot as they were, and ends the turn: the
\* turn passes on, and the player's next step is not a roll, a purchase or a
\* building.
C31_FreeVacationEndsTurn ==
    [][ /\ (ev'.op = "land" /\ ev'.card = "S19") =>
              ( /\ game'.players[ev'.p].position = 28
                /\ Gain(ev'.p) = 0
                /\ PotGain = 0
                /\ game'.currentPlayerTurn # ev'.p )
        /\ (ev.op = "land" /\ ev.card = "S19" /\ ev'.p = ev.p) =>
              ev'.op \notin {"roll", "rollToJail", "buy", "build"} ]_vars

\* ---------------------------------------------------------------- SpecPardon
\* Get Out of Jail Free cards: a starts its turn in jail holding one card, or
\* free on Canberra (square 52) holding one card; 3 + 3 from Canberra reaches
\* the Treasure Chest of square 2, and 3 + 3 then 1 + 2 from jail the Surprise
\* square 23.

MaxOpsPardon == 4

PardonDice == {<<1, 2>>, <<3, 3>>}

JailCards == {"TC01", "S05"}

PardonStarts ==
    {TurnInJail, PSet(PSet(TurnBoard, "a", "position", 52), "a", "getOutOfJailFreeCards", 1)}

InitPardon == \E g \in PardonStarts : Quiet(g, {}, MaxOpsPardon)

NextPardon ==
    \E c \in TurnActors :
        \/ Sync(c)
        \/ \E d \in PardonDice : handleRollDice(c, d[1], d[2])
        \/ RollWritten(c)
        \/ LandRead(c)
        \/ \E card \in JailCards \cup {NoCard} : LandWrite(c, card, 7)
        \/ Continue(c)
        \/ handleEndTurn(c)
        \/ EndTurnAfterJailRoll(c)
        \/ payJailFine(c)
        \/ handleUsePardonCard(c)

SpecPardon == InitPardon /\ [][NextPardon]_vars

C33_TurnHeldByPresentPlayer ==
    game.status = "in-progress" => game.players[game.currentPlayerTurn].rec # "none"

\* The turn panel of client c shows at least one of its buttons: Roll Dice, the
\* jail buttons, End Turn or Continue, or the End Turn of a player on vacation.
TurnButtonShown(c) ==
    LET me == snap[c].players[c]
    IN  \/ ~me.inJail /\ ~hasRolled[c] /\ ~me.onVacation
        \/ me.inJail /\ ~hasRolled[c]
        \/ hasRolled[c] /\ ~me.onVacation /\ ~me.inJail
        \/ me.onVacation

\* Client c has rendered the document and has no roll, landing or end of turn in
\* flight.
AtRest(c) ==
    /\ snap[c] = game
    /\ landq[c] = <<>> /\ endq[c] = <<>> /\ pend[c].kind = "none"

\* C34: while the game is in progress, the player whose turn it is, once nothing
\* of theirs is in flight, is shown at least one turn button.
C34_TurnNeverStuck ==
    \A c \in PlayerIds :
        (game.status = "in-progress" /\ game.currentPlayerTurn = c
           /\ game.players[c].rec = "full" /\ AtRest(c))
          => TurnButtonShown(c)

\* ---------------------------------------------------------------- SpecPot
\* The vacation pot: a starts its turn on Airport 2 (square 16), three squares
\* before the Treasure Chest of square 19; b, who comes next and has $30 left,
\* stands on Rio de Janeiro (square 1), three squares before Income Tax (10%).

MaxOpsPot == 3

PotStart ==
    LET g0 == StartedGame(DefaultSettings, <<"a", "b", "c">>)
    IN  PSet(PSet(PSet(g0, "a", "position", 16), "b", "position", 1), "b", "money", D(30))

InitPot == Quiet(PotStart, {}, MaxOpsPot)

NextPot ==
    \E c \in TurnActors :
        \/ Sync(c)
        \/ handleRollDice(c, 1, 2)
        \/ RollWritten(c)
        \/ LandRead(c)
        \/ \E card \in {NoCard, "TC03", "TC07"} : LandWrite(c, card, 7)
        \/ handleEndTurn(c)

SpecPot == InitPot /\ [][NextPot]_vars

\* C35: vacationPot is never negative.
C35_PotNeverNegative == game.vacationPot >= 0

\* The sum of board[pos][field] over the squares of ps that player p owns.
RECURSIVE OwnedSum(_, _, _, _)
OwnedSum(g, p, ps, field) ==
    IF ps = {} THEN 0
    ELSE LET pos == CHOOSE x \in ps : TRUE
         IN  (IF g.board[pos].owner = p THEN g.board[pos][field] ELSE 0)
               + OwnedSum(g, p, ps \ {pos}, field)

\* C36: every player's houses and hotels are the sums of the houses and of the
\* hotels standing on the cities that player owns, and neither is negative.
C36_AggregatesMatchBoard ==
    \A p \in PlayerIds :
        game.players[p].rec = "full" =>
          ( /\ game.players[p].houses = OwnedSum(game, p, Cities, "houses")
            /\ game.players[p].hotels = OwnedSum(game, p, Cities, "hotels")
            /\ game.players[p].houses >= 0
            /\ game.players[p].hotels >= 0 )

\* C37: every owner on the board is a player who has a record in players, and
\* no write gives a player who was removed a record again.
C37_OwnersArePlayers ==
    /\ \A pos \in Priced :
          game.board[pos].owner # Null => game.players[game.board[pos].owner].rec # "none"
    /\ \A p \in PlayerIds : game.players[p].rec # "partial"

\* C38: a startAuction that is applied while an auction is active leaves that
\* auction as it is: its square, seller, bids and highest bidder.
C38_ActiveAuctionNotReplaced ==
    [][ (ev'.op = "startAuction" /\ game.auction.active) =>
          game'.auction = game.auction ]_vars

\* C40: a buy takes effect only on a square that has no owner in the shared
\* document when the write is applied, and never on the square of a running
\* auction: an owned square keeps its owner across every buy.
C40_BuyOnlyUnowned ==
    [][ ev'.op = "buy" =>
          /\ game.board[ev'.pos].owner = Null
          /\ ~(game.auction.active /\ game.auction.propertyId = ev'.pos) ]_vars

\* ---------------------------------------------------------------- SpecCountdown
\* Auctions under fair scheduling: snapshots are delivered, the countdown of a
\* shown AuctionModal runs down on the host's page, and a started endAuction
\* completes its write.  User operations (starting, bidding, cancelling,
\* declaring bankruptcy) are never forced.

MaxOpsCountdown == 3

CountdownActors == {"a", "b", "c"}

\* The second round of OwnStart: a has ended its turn and b, the owner of
\* Airport 1, is to roll.
CountdownStart == [OwnStart EXCEPT !.currentPlayerTurn = "b"]

InitCountdown == Quiet(CountdownStart, {}, MaxOpsCountdown)

NextCountdown ==
    \E c \in CountdownActors :
        \/ Sync(c)
        \/ startOwnedAuction(c, 5, D(30))
        \/ \E b \in {D(40), D(60)} : placeBid(c, b)
        \/ handleCloseAuction(c)
        \/ EndAuctionRead(c)
        \/ EndAuctionReadAgain(c)
        \/ EndAuctionWrite(c)
        \/ handleBankruptcy(c)

\* setInterval in the modal of the host, the awaited updateDoc of endAuction,
\* and onSnapshot deliveries.
CountdownFairness ==
    \A c \in CountdownActors :
        /\ WF_vars(Sync(c))
        /\ WF_vars(EndAuctionRead(c))
        /\ WF_vars(EndAuctionWrite(c))

SpecCountdown == InitCountdown /\ [][NextCountdown]_vars /\ CountdownFairness

\* C39: every auction that becomes active ends: auction.active returns to
\* false, also when the host has left the game by bankruptcy.
C39_AuctionEventuallyEnds == game.auction.active ~> ~game.auction.active


====
